---- MODULE Spec2Model ----
(***************************************************************************)
(* Model of the aspect-ratio pipeline of the background worker             *)
(* (src/common/popup.js, lines 89-706): the ratio token parser             *)
(* (parseRatiosFromBlock), the classifier (ratioToNumber, mapRatioToType), *)
(* the scoring table (scoreForPrimary) and the primary selector            *)
(* (choosePrimaryRatio).                                                   *)
(*                                                                         *)
(* Text is a sequence of UTF-16 code units, each an ASCII character        *)
(* written as a one-character string.  A code unit that cannot be written  *)
(* in a string of this language is written by its code point, "U+" and     *)
(* four upper-case hexadecimal digits ("U+00A0" is the no-break space,     *)
(* "U+000B" the vertical tab, "U+2022" the bullet).  The value null is     *)
(* Null.                                                                   *)
(*                                                                         *)
(* Numbers.  A JavaScript number is a double, and every operation of the   *)
(* source on numbers (parseFloat, /, *, -, Math.round, toFixed, <=) is     *)
(* the exact operation followed by the rounding of IEEE 754 (Fl).  Where   *)
(* the operands are short and the exact result is not on a boundary of     *)
(* the rounding, the result is computed in exact integer arithmetic, which *)
(* gives the same; the conditions are stated where this is done.           *)
(***************************************************************************)
EXTENDS Integers, Sequences, FiniteSets, TLC

\* null.  A text is a sequence of one-character strings, so this is no text.
Null == <<"NULL">>

(***************************************************************************)
(* Characters                                                              *)
(***************************************************************************)
Digits == {"0", "1", "2", "3", "4", "5", "6", "7", "8", "9"}

LowerLetters ==
  {"a", "b", "c", "d", "e", "f", "g", "h", "i", "j", "k", "l", "m",
   "n", "o", "p", "q", "r", "s", "t", "u", "v", "w", "x", "y", "z"}

UpperToLower ==
  ("A" :> "a") @@ ("B" :> "b") @@ ("C" :> "c") @@ ("D" :> "d") @@
  ("E" :> "e") @@ ("F" :> "f") @@ ("G" :> "g") @@ ("H" :> "h") @@
  ("I" :> "i") @@ ("J" :> "j") @@ ("K" :> "k") @@ ("L" :> "l") @@
  ("M" :> "m") @@ ("N" :> "n") @@ ("O" :> "o") @@ ("P" :> "p") @@
  ("Q" :> "q") @@ ("R" :> "r") @@ ("S" :> "s") @@ ("T" :> "t") @@
  ("U" :> "u") @@ ("V" :> "v") @@ ("W" :> "w") @@ ("X" :> "x") @@
  ("Y" :> "y") @@ ("Z" :> "z")

\* The i flag on one character.  The patterns of the source are ASCII, and
\* Canonicalize maps no character outside ASCII to one inside, so only the
\* letters A-Z and a-z match each other.
Lower(c) == IF c \in DOMAIN UpperToLower THEN UpperToLower[c] ELSE c

(***************************************************************************)
(* The case mapping of String.prototype.toLowerCase: the lower case        *)
(* mapping of the Unicode Character Database (UnicodeData.txt and          *)
(* SpecialCasing.txt without the rules of a language), version 17.         *)
(***************************************************************************)
HexDigits ==
  <<"0", "1", "2", "3", "4", "5", "6", "7", "8", "9",
    "A", "B", "C", "D", "E", "F">>

\* The code unit of the number n, n from 128 on.
UnitName(n) ==
  "U+" \o HexDigits[(n \div 4096) + 1] \o HexDigits[((n \div 256) % 16) + 1]
       \o HexDigits[((n \div 16) % 16) + 1] \o HexDigits[(n % 16) + 1]

\* The first and the second code unit of a surrogate pair.
HighSurrogates == {UnitName(n) : n \in 55296..56319}

LowSurrogates == {UnitName(n) : n \in 56320..57343}

\* The code units of the code point n, n from 128 on: the code point, or
\* from U+10000 on its surrogate pair.
CodeUnits(n) ==
  IF n < 65536 THEN <<UnitName(n)>>
  ELSE <<UnitName(55296 + ((n - 65536) \div 1024)),
         UnitName(56320 + ((n - 65536) % 1024))>>

\* The code points outside ASCII with a lower case of one other code point:
\* <<first, last, step, d>> stands for the code points first, first + step,
\* ... last, each with the lower case d code points further.  The Kelvin
\* sign U+212A (lower case "k") and the capital I with dot U+0130 (lower
\* case of two code points) are not listed.
LowerCaseRanges ==
  {
   <<192, 214, 1, 32>>, <<216, 222, 1, 32>>, <<256, 302, 2, 1>>,
   <<306, 310, 2, 1>>, <<313, 327, 2, 1>>, <<330, 374, 2, 1>>,
   <<376, 376, 1, -121>>, <<377, 381, 2, 1>>, <<385, 385, 1, 210>>,
   <<386, 388, 2, 1>>, <<390, 390, 1, 206>>, <<391, 391, 1, 1>>,
   <<393, 394, 1, 205>>, <<395, 395, 1, 1>>, <<398, 398, 1, 79>>,
   <<399, 399, 1, 202>>, <<400, 400, 1, 203>>, <<401, 401, 1, 1>>,
   <<403, 403, 1, 205>>, <<404, 404, 1, 207>>, <<406, 406, 1, 211>>,
   <<407, 407, 1, 209>>, <<408, 408, 1, 1>>, <<412, 412, 1, 211>>,
   <<413, 413, 1, 213>>, <<415, 415, 1, 214>>, <<416, 420, 2, 1>>,
   <<422, 422, 1, 218>>, <<423, 423, 1, 1>>, <<425, 425, 1, 218>>,
   <<428, 428, 1, 1>>, <<430, 430, 1, 218>>, <<431, 431, 1, 1>>,
   <<433, 434, 1, 217>>, <<435, 437, 2, 1>>, <<439, 439, 1, 219>>,
   <<440, 440, 1, 1>>, <<444, 444, 1, 1>>, <<452, 452, 1, 2>>,
   <<453, 453, 1, 1>>, <<455, 455, 1, 2>>, <<456, 456, 1, 1>>,
   <<458, 458, 1, 2>>, <<459, 475, 2, 1>>, <<478, 494, 2, 1>>,
   <<497, 497, 1, 2>>, <<498, 500, 2, 1>>, <<502, 502, 1, -97>>,
   <<503, 503, 1, -56>>, <<504, 542, 2, 1>>, <<544, 544, 1, -130>>,
   <<546, 562, 2, 1>>, <<570, 570, 1, 10795>>, <<571, 571, 1, 1>>,
   <<573, 573, 1, -163>>, <<574, 574, 1, 10792>>, <<577, 577, 1, 1>>,
   <<579, 579, 1, -195>>, <<580, 580, 1, 69>>, <<581, 581, 1, 71>>,
   <<582, 590, 2, 1>>, <<880, 882, 2, 1>>, <<886, 886, 1, 1>>,
   <<895, 895, 1, 116>>, <<902, 902, 1, 38>>, <<904, 906, 1, 37>>,
   <<908, 908, 1, 64>>, <<910, 911, 1, 63>>, <<913, 929, 1, 32>>,
   <<931, 939, 1, 32>>, <<975, 975, 1, 8>>, <<984, 1006, 2, 1>>,
   <<1012, 1012, 1, -60>>, <<1015, 1015, 1, 1>>, <<1017, 1017, 1, -7>>,
   <<1018, 1018, 1, 1>>, <<1021, 1023, 1, -130>>, <<1024, 1039, 1, 80>>,
   <<1040, 1071, 1, 32>>, <<1120, 1152, 2, 1>>, <<1162, 1214, 2, 1>>,
   <<1216, 1216, 1, 15>>, <<1217, 1229, 2, 1>>, <<1232, 1326, 2, 1>>,
   <<1329, 1366, 1, 48>>, <<4256, 4293, 1, 7264>>, <<4295, 4295, 1, 7264>>,
   <<4301, 4301, 1, 7264>>, <<5024, 5103, 1, 38864>>, <<5104, 5109, 1, 8>>,
   <<7305, 7305, 1, 1>>, <<7312, 7354, 1, -3008>>, <<7357, 7359, 1, -3008>>,
   <<7680, 7828, 2, 1>>, <<7838, 7838, 1, -7615>>, <<7840, 7934, 2, 1>>,
   <<7944, 7951, 1, -8>>, <<7960, 7965, 1, -8>>, <<7976, 7983, 1, -8>>,
   <<7992, 7999, 1, -8>>, <<8008, 8013, 1, -8>>, <<8025, 8031, 2, -8>>,
   <<8040, 8047, 1, -8>>, <<8072, 8079, 1, -8>>, <<8088, 8095, 1, -8>>,
   <<8104, 8111, 1, -8>>, <<8120, 8121, 1, -8>>, <<8122, 8123, 1, -74>>,
   <<8124, 8124, 1, -9>>, <<8136, 8139, 1, -86>>, <<8140, 8140, 1, -9>>,
   <<8152, 8153, 1, -8>>, <<8154, 8155, 1, -100>>, <<8168, 8169, 1, -8>>,
   <<8170, 8171, 1, -112>>, <<8172, 8172, 1, -7>>, <<8184, 8185, 1, -128>>,
   <<8186, 8187, 1, -126>>, <<8188, 8188, 1, -9>>, <<8486, 8486, 1, -7517>>,
   <<8491, 8491, 1, -8262>>, <<8498, 8498, 1, 28>>, <<8544, 8559, 1, 16>>,
   <<8579, 8579, 1, 1>>, <<9398, 9423, 1, 26>>, <<11264, 11311, 1, 48>>,
   <<11360, 11360, 1, 1>>, <<11362, 11362, 1, -10743>>,
   <<11363, 11363, 1, -3814>>, <<11364, 11364, 1, -10727>>,
   <<11367, 11371, 2, 1>>, <<11373, 11373, 1, -10780>>,
   <<11374, 11374, 1, -10749>>, <<11375, 11375, 1, -10783>>,
   <<11376, 11376, 1, -10782>>, <<11378, 11378, 1, 1>>,
   <<11381, 11381, 1, 1>>, <<11390, 11391, 1, -10815>>,
   <<11392, 11490, 2, 1>>, <<11499, 11501, 2, 1>>, <<11506, 11506, 1, 1>>,
   <<42560, 42604, 2, 1>>, <<42624, 42650, 2, 1>>, <<42786, 42798, 2, 1>>,
   <<42802, 42862, 2, 1>>, <<42873, 42875, 2, 1>>,
   <<42877, 42877, 1, -35332>>, <<42878, 42886, 2, 1>>,
   <<42891, 42891, 1, 1>>, <<42893, 42893, 1, -42280>>,
   <<42896, 42898, 2, 1>>, <<42902, 42920, 2, 1>>,
   <<42922, 42922, 1, -42308>>, <<42923, 42923, 1, -42319>>,
   <<42924, 42924, 1, -42315>>, <<42925, 42925, 1, -42305>>,
   <<42926, 42926, 1, -42308>>, <<42928, 42928, 1, -42258>>,
   <<42929, 42929, 1, -42282>>, <<42930, 42930, 1, -42261>>,
   <<42931, 42931, 1, 928>>, <<42932, 42946, 2, 1>>,
   <<42948, 42948, 1, -48>>, <<42949, 42949, 1, -42307>>,
   <<42950, 42950, 1, -35384>>, <<42951, 42953, 2, 1>>,
   <<42955, 42955, 1, -42343>>, <<42956, 42970, 2, 1>>,
   <<42972, 42972, 1, -42561>>, <<42997, 42997, 1, 1>>,
   <<65313, 65338, 1, 32>>, <<66560, 66599, 1, 40>>, <<66736, 66771, 1, 40>>,
   <<66928, 66938, 1, 39>>, <<66940, 66954, 1, 39>>, <<66956, 66962, 1, 39>>,
   <<66964, 66965, 1, 39>>, <<68736, 68786, 1, 64>>, <<68944, 68965, 1, 32>>,
   <<71840, 71871, 1, 32>>, <<93760, 93791, 1, 32>>, <<93856, 93880, 1, 27>>,
   <<125184, 125217, 1, 34>>
  }

\* The code points of a range.
Members(r) == {n \in r[1]..r[2] : (n - r[1]) % r[3] = 0}

\* The pairs of a code point outside ASCII and its lower case, both in code
\* units.  Two code points have a lower case with a code unit of ASCII: the
\* Kelvin sign U+212A gives "k", and the capital I with dot U+0130 gives "i"
\* and the combining dot U+0307, two code units for one.
LowerCasePairs ==
  UNION {{<<CodeUnits(n), CodeUnits(n + r[4])>> : n \in Members(r)} :
           r \in LowerCaseRanges}
    \cup {<< <<"U+212A">>, <<"k">> >>, << <<"U+0130">>, <<"i", "U+0307">> >>}

\* The lower case of the code point of the code units u, outside ASCII, by
\* UnicodeData.txt: that of its pair, or the code point.
LowerCase(u) ==
  LET Of(found) == IF found = {} THEN u ELSE (CHOOSE p \in found : TRUE)[2]
  IN  Of({p \in LowerCasePairs : p[1] = u})

\* The code points outside ASCII with the property Case_Ignorable
\* (DerivedCoreProperties.txt), <<first, last>>.
CaseIgnorableRanges ==
  {
   <<168, 168>>, <<173, 173>>, <<175, 175>>, <<180, 180>>, <<183, 184>>,
   <<688, 879>>, <<884, 885>>, <<890, 890>>, <<900, 901>>, <<903, 903>>,
   <<1155, 1161>>, <<1369, 1369>>, <<1375, 1375>>, <<1425, 1469>>,
   <<1471, 1471>>, <<1473, 1474>>, <<1476, 1477>>, <<1479, 1479>>,
   <<1524, 1524>>, <<1536, 1541>>, <<1552, 1562>>, <<1564, 1564>>,
   <<1600, 1600>>, <<1611, 1631>>, <<1648, 1648>>, <<1750, 1757>>,
   <<1759, 1768>>, <<1770, 1773>>, <<1807, 1807>>, <<1809, 1809>>,
   <<1840, 1866>>, <<1958, 1968>>, <<2027, 2037>>, <<2042, 2042>>,
   <<2045, 2045>>, <<2070, 2093>>, <<2137, 2139>>, <<2184, 2184>>,
   <<2192, 2193>>, <<2199, 2207>>, <<2249, 2306>>, <<2362, 2362>>,
   <<2364, 2364>>, <<2369, 2376>>, <<2381, 2381>>, <<2385, 2391>>,
   <<2402, 2403>>, <<2417, 2417>>, <<2433, 2433>>, <<2492, 2492>>,
   <<2497, 2500>>, <<2509, 2509>>, <<2530, 2531>>, <<2558, 2558>>,
   <<2561, 2562>>, <<2620, 2620>>, <<2625, 2626>>, <<2631, 2632>>,
   <<2635, 2637>>, <<2641, 2641>>, <<2672, 2673>>, <<2677, 2677>>,
   <<2689, 2690>>, <<2748, 2748>>, <<2753, 2757>>, <<2759, 2760>>,
   <<2765, 2765>>, <<2786, 2787>>, <<2810, 2815>>, <<2817, 2817>>,
   <<2876, 2876>>, <<2879, 2879>>, <<2881, 2884>>, <<2893, 2893>>,
   <<2901, 2902>>, <<2914, 2915>>, <<2946, 2946>>, <<3008, 3008>>,
   <<3021, 3021>>, <<3072, 3072>>, <<3076, 3076>>, <<3132, 3132>>,
   <<3134, 3136>>, <<3142, 3144>>, <<3146, 3149>>, <<3157, 3158>>,
   <<3170, 3171>>, <<3201, 3201>>, <<3260, 3260>>, <<3263, 3263>>,
   <<3270, 3270>>, <<3276, 3277>>, <<3298, 3299>>, <<3328, 3329>>,
   <<3387, 3388>>, <<3393, 3396>>, <<3405, 3405>>, <<3426, 3427>>,
   <<3457, 3457>>, <<3530, 3530>>, <<3538, 3540>>, <<3542, 3542>>,
   <<3633, 3633>>, <<3636, 3642>>, <<3654, 3662>>, <<3761, 3761>>,
   <<3764, 3772>>, <<3782, 3782>>, <<3784, 3790>>, <<3864, 3865>>,
   <<3893, 3893>>, <<3895, 3895>>, <<3897, 3897>>, <<3953, 3966>>,
   <<3968, 3972>>, <<3974, 3975>>, <<3981, 3991>>, <<3993, 4028>>,
   <<4038, 4038>>, <<4141, 4144>>, <<4146, 4151>>, <<4153, 4154>>,
   <<4157, 4158>>, <<4184, 4185>>, <<4190, 4192>>, <<4209, 4212>>,
   <<4226, 4226>>, <<4229, 4230>>, <<4237, 4237>>, <<4253, 4253>>,
   <<4348, 4348>>, <<4957, 4959>>, <<5906, 5908>>, <<5938, 5939>>,
   <<5970, 5971>>, <<6002, 6003>>, <<6068, 6069>>, <<6071, 6077>>,
   <<6086, 6086>>, <<6089, 6099>>, <<6103, 6103>>, <<6109, 6109>>,
   <<6155, 6159>>, <<6211, 6211>>, <<6277, 6278>>, <<6313, 6313>>,
   <<6432, 6434>>, <<6439, 6440>>, <<6450, 6450>>, <<6457, 6459>>,
   <<6679, 6680>>, <<6683, 6683>>, <<6742, 6742>>, <<6744, 6750>>,
   <<6752, 6752>>, <<6754, 6754>>, <<6757, 6764>>, <<6771, 6780>>,
   <<6783, 6783>>, <<6823, 6823>>, <<6832, 6877>>, <<6880, 6891>>,
   <<6912, 6915>>, <<6964, 6964>>, <<6966, 6970>>, <<6972, 6972>>,
   <<6978, 6978>>, <<7019, 7027>>, <<7040, 7041>>, <<7074, 7077>>,
   <<7080, 7081>>, <<7083, 7085>>, <<7142, 7142>>, <<7144, 7145>>,
   <<7149, 7149>>, <<7151, 7153>>, <<7212, 7219>>, <<7222, 7223>>,
   <<7288, 7293>>, <<7376, 7378>>, <<7380, 7392>>, <<7394, 7400>>,
   <<7405, 7405>>, <<7412, 7412>>, <<7416, 7417>>, <<7468, 7530>>,
   <<7544, 7544>>, <<7579, 7679>>, <<8125, 8125>>, <<8127, 8129>>,
   <<8141, 8143>>, <<8157, 8159>>, <<8173, 8175>>, <<8189, 8190>>,
   <<8203, 8207>>, <<8216, 8217>>, <<8228, 8228>>, <<8231, 8231>>,
   <<8234, 8238>>, <<8288, 8292>>, <<8294, 8303>>, <<8305, 8305>>,
   <<8319, 8319>>, <<8336, 8348>>, <<8400, 8432>>, <<11388, 11389>>,
   <<11503, 11505>>, <<11631, 11631>>, <<11647, 11647>>, <<11744, 11775>>,
   <<11823, 11823>>, <<12293, 12293>>, <<12330, 12333>>, <<12337, 12341>>,
   <<12347, 12347>>, <<12441, 12446>>, <<12540, 12542>>, <<40981, 40981>>,
   <<42232, 42237>>, <<42508, 42508>>, <<42607, 42610>>, <<42612, 42621>>,
   <<42623, 42623>>, <<42652, 42655>>, <<42736, 42737>>, <<42752, 42785>>,
   <<42864, 42864>>, <<42888, 42890>>, <<42993, 42996>>, <<43000, 43001>>,
   <<43010, 43010>>, <<43014, 43014>>, <<43019, 43019>>, <<43045, 43046>>,
   <<43052, 43052>>, <<43204, 43205>>, <<43232, 43249>>, <<43263, 43263>>,
   <<43302, 43309>>, <<43335, 43345>>, <<43392, 43394>>, <<43443, 43443>>,
   <<43446, 43449>>, <<43452, 43453>>, <<43471, 43471>>, <<43493, 43494>>,
   <<43561, 43566>>, <<43569, 43570>>, <<43573, 43574>>, <<43587, 43587>>,
   <<43596, 43596>>, <<43632, 43632>>, <<43644, 43644>>, <<43696, 43696>>,
   <<43698, 43700>>, <<43703, 43704>>, <<43710, 43711>>, <<43713, 43713>>,
   <<43741, 43741>>, <<43756, 43757>>, <<43763, 43764>>, <<43766, 43766>>,
   <<43867, 43871>>, <<43881, 43883>>, <<44005, 44005>>, <<44008, 44008>>,
   <<44013, 44013>>, <<64286, 64286>>, <<64434, 64450>>, <<65024, 65039>>,
   <<65043, 65043>>, <<65056, 65071>>, <<65106, 65106>>, <<65109, 65109>>,
   <<65279, 65279>>, <<65287, 65287>>, <<65294, 65294>>, <<65306, 65306>>,
   <<65342, 65342>>, <<65344, 65344>>, <<65392, 65392>>, <<65438, 65439>>,
   <<65507, 65507>>, <<65529, 65531>>, <<66045, 66045>>, <<66272, 66272>>,
   <<66422, 66426>>, <<67456, 67461>>, <<67463, 67504>>, <<67506, 67514>>,
   <<68097, 68099>>, <<68101, 68102>>, <<68108, 68111>>, <<68152, 68154>>,
   <<68159, 68159>>, <<68325, 68326>>, <<68900, 68903>>, <<68942, 68942>>,
   <<68969, 68973>>, <<68975, 68975>>, <<69291, 69292>>, <<69317, 69317>>,
   <<69370, 69375>>, <<69446, 69456>>, <<69506, 69509>>, <<69633, 69633>>,
   <<69688, 69702>>, <<69744, 69744>>, <<69747, 69748>>, <<69759, 69761>>,
   <<69811, 69814>>, <<69817, 69818>>, <<69821, 69821>>, <<69826, 69826>>,
   <<69837, 69837>>, <<69888, 69890>>, <<69927, 69931>>, <<69933, 69940>>,
   <<70003, 70003>>, <<70016, 70017>>, <<70070, 70078>>, <<70089, 70092>>,
   <<70095, 70095>>, <<70191, 70193>>, <<70196, 70196>>, <<70198, 70199>>,
   <<70206, 70206>>, <<70209, 70209>>, <<70367, 70367>>, <<70371, 70378>>,
   <<70400, 70401>>, <<70459, 70460>>, <<70464, 70464>>, <<70502, 70508>>,
   <<70512, 70516>>, <<70587, 70592>>, <<70606, 70606>>, <<70608, 70608>>,
   <<70610, 70610>>, <<70625, 70626>>, <<70712, 70719>>, <<70722, 70724>>,
   <<70726, 70726>>, <<70750, 70750>>, <<70835, 70840>>, <<70842, 70842>>,
   <<70847, 70848>>, <<70850, 70851>>, <<71090, 71093>>, <<71100, 71101>>,
   <<71103, 71104>>, <<71132, 71133>>, <<71219, 71226>>, <<71229, 71229>>,
   <<71231, 71232>>, <<71339, 71339>>, <<71341, 71341>>, <<71344, 71349>>,
   <<71351, 71351>>, <<71453, 71453>>, <<71455, 71455>>, <<71458, 71461>>,
   <<71463, 71467>>, <<71727, 71735>>, <<71737, 71738>>, <<71995, 71996>>,
   <<71998, 71998>>, <<72003, 72003>>, <<72148, 72151>>, <<72154, 72155>>,
   <<72160, 72160>>, <<72193, 72202>>, <<72243, 72248>>, <<72251, 72254>>,
   <<72263, 72263>>, <<72273, 72278>>, <<72281, 72283>>, <<72330, 72342>>,
   <<72344, 72345>>, <<72544, 72544>>, <<72546, 72548>>, <<72550, 72550>>,
   <<72752, 72758>>, <<72760, 72765>>, <<72767, 72767>>, <<72850, 72871>>,
   <<72874, 72880>>, <<72882, 72883>>, <<72885, 72886>>, <<73009, 73014>>,
   <<73018, 73018>>, <<73020, 73021>>, <<73023, 73029>>, <<73031, 73031>>,
   <<73104, 73105>>, <<73109, 73109>>, <<73111, 73111>>, <<73177, 73177>>,
   <<73459, 73460>>, <<73472, 73473>>, <<73526, 73530>>, <<73536, 73536>>,
   <<73538, 73538>>, <<73562, 73562>>, <<78896, 78912>>, <<78919, 78933>>,
   <<90398, 90409>>, <<90413, 90415>>, <<92912, 92916>>, <<92976, 92982>>,
   <<92992, 92995>>, <<93504, 93506>>, <<93547, 93548>>, <<94031, 94031>>,
   <<94095, 94111>>, <<94176, 94177>>, <<94179, 94180>>, <<94194, 94195>>,
   <<110576, 110579>>, <<110581, 110587>>, <<110589, 110590>>,
   <<113821, 113822>>, <<113824, 113827>>, <<118528, 118573>>,
   <<118576, 118598>>, <<119143, 119145>>, <<119155, 119170>>,
   <<119173, 119179>>, <<119210, 119213>>, <<119362, 119364>>,
   <<121344, 121398>>, <<121403, 121452>>, <<121461, 121461>>,
   <<121476, 121476>>, <<121499, 121503>>, <<121505, 121519>>,
   <<122880, 122886>>, <<122888, 122904>>, <<122907, 122913>>,
   <<122915, 122916>>, <<122918, 122922>>, <<122928, 122989>>,
   <<123023, 123023>>, <<123184, 123197>>, <<123566, 123566>>,
   <<123628, 123631>>, <<124139, 124143>>, <<124398, 124399>>,
   <<124643, 124643>>, <<124646, 124646>>, <<124654, 124655>>,
   <<124661, 124661>>, <<124671, 124671>>, <<125136, 125142>>,
   <<125252, 125259>>, <<127995, 127999>>, <<917505, 917505>>,
   <<917536, 917631>>, <<917760, 917999>>
  }

\* The code points outside ASCII with the property Cased and without
\* Case_Ignorable, <<first, last>>.
CasedRanges ==
  {
   <<170, 170>>, <<181, 181>>, <<186, 186>>, <<192, 214>>, <<216, 246>>,
   <<248, 442>>, <<444, 447>>, <<452, 659>>, <<662, 687>>, <<880, 883>>,
   <<886, 887>>, <<891, 893>>, <<895, 895>>, <<902, 902>>, <<904, 906>>,
   <<908, 908>>, <<910, 929>>, <<931, 1013>>, <<1015, 1153>>, <<1162, 1327>>,
   <<1329, 1366>>, <<1376, 1416>>, <<4256, 4293>>, <<4295, 4295>>,
   <<4301, 4301>>, <<4304, 4346>>, <<4349, 4351>>, <<5024, 5109>>,
   <<5112, 5117>>, <<7296, 7306>>, <<7312, 7354>>, <<7357, 7359>>,
   <<7424, 7467>>, <<7531, 7543>>, <<7545, 7578>>, <<7680, 7957>>,
   <<7960, 7965>>, <<7968, 8005>>, <<8008, 8013>>, <<8016, 8023>>,
   <<8025, 8025>>, <<8027, 8027>>, <<8029, 8029>>, <<8031, 8061>>,
   <<8064, 8116>>, <<8118, 8124>>, <<8126, 8126>>, <<8130, 8132>>,
   <<8134, 8140>>, <<8144, 8147>>, <<8150, 8155>>, <<8160, 8172>>,
   <<8178, 8180>>, <<8182, 8188>>, <<8450, 8450>>, <<8455, 8455>>,
   <<8458, 8467>>, <<8469, 8469>>, <<8473, 8477>>, <<8484, 8484>>,
   <<8486, 8486>>, <<8488, 8488>>, <<8490, 8493>>, <<8495, 8500>>,
   <<8505, 8505>>, <<8508, 8511>>, <<8517, 8521>>, <<8526, 8526>>,
   <<8544, 8575>>, <<8579, 8580>>, <<9398, 9449>>, <<11264, 11387>>,
   <<11390, 11492>>, <<11499, 11502>>, <<11506, 11507>>, <<11520, 11557>>,
   <<11559, 11559>>, <<11565, 11565>>, <<42560, 42605>>, <<42624, 42651>>,
   <<42786, 42863>>, <<42865, 42887>>, <<42891, 42894>>, <<42896, 42972>>,
   <<42997, 42998>>, <<43002, 43002>>, <<43824, 43866>>, <<43872, 43880>>,
   <<43888, 43967>>, <<64256, 64262>>, <<64275, 64279>>, <<65313, 65338>>,
   <<65345, 65370>>, <<66560, 66639>>, <<66736, 66771>>, <<66776, 66811>>,
   <<66928, 66938>>, <<66940, 66954>>, <<66956, 66962>>, <<66964, 66965>>,
   <<66967, 66977>>, <<66979, 66993>>, <<66995, 67001>>, <<67003, 67004>>,
   <<68736, 68786>>, <<68800, 68850>>, <<68944, 68965>>, <<68976, 68997>>,
   <<71840, 71903>>, <<93760, 93823>>, <<93856, 93880>>, <<93883, 93907>>,
   <<119808, 119892>>, <<119894, 119964>>, <<119966, 119967>>,
   <<119970, 119970>>, <<119973, 119974>>, <<119977, 119980>>,
   <<119982, 119993>>, <<119995, 119995>>, <<119997, 120003>>,
   <<120005, 120069>>, <<120071, 120074>>, <<120077, 120084>>,
   <<120086, 120092>>, <<120094, 120121>>, <<120123, 120126>>,
   <<120128, 120132>>, <<120134, 120134>>, <<120138, 120144>>,
   <<120146, 120485>>, <<120488, 120512>>, <<120514, 120538>>,
   <<120540, 120570>>, <<120572, 120596>>, <<120598, 120628>>,
   <<120630, 120654>>, <<120656, 120686>>, <<120688, 120712>>,
   <<120714, 120744>>, <<120746, 120770>>, <<120772, 120779>>,
   <<122624, 122633>>, <<122635, 122654>>, <<122661, 122666>>,
   <<125184, 125251>>, <<127280, 127305>>, <<127312, 127337>>,
   <<127344, 127369>>
  }

\* Case_Ignorable, in code units; in ASCII ' . : ^ and the grave accent.
CaseIgnorable ==
  {<<"'">>, <<".">>, <<":">>, <<"^">>, <<"U+0060">>}
    \cup UNION {{CodeUnits(n) : n \in r[1]..r[2]} : r \in CaseIgnorableRanges}

\* Cased and not Case_Ignorable, in code units; in ASCII the letters.
Cased ==
  {<<c>> : c \in LowerLetters \cup DOMAIN UpperToLower}
    \cup UNION {{CodeUnits(n) : n \in r[1]..r[2]} : r \in CasedRanges}

\* \d
IsDigit(c) == c \in Digits

\* \s, and the characters String.prototype.trim removes: WhiteSpace and
\* LineTerminator of ECMAScript, 25 code units (U+0009-U+000D, U+0020,
\* U+00A0, U+1680, U+2000-U+200A, U+2028, U+2029, U+202F, U+205F, U+3000,
\* U+FEFF).
WhiteSpace ==
  {"\t", "\n", "U+000B", "\f", "\r", " ", "U+00A0", "U+1680",
   "U+2000", "U+2001", "U+2002", "U+2003", "U+2004", "U+2005", "U+2006",
   "U+2007", "U+2008", "U+2009", "U+200A",
   "U+2028", "U+2029", "U+202F", "U+205F", "U+3000", "U+FEFF"}

IsSpace(c) == c \in WhiteSpace

\* \w
IsWordChar(c) == Lower(c) \in LowerLetters \/ c \in Digits \/ c = "_"

DigitVal(c) ==
  CASE c = "0" -> 0 [] c = "1" -> 1 [] c = "2" -> 2 [] c = "3" -> 3
    [] c = "4" -> 4 [] c = "5" -> 5 [] c = "6" -> 6 [] c = "7" -> 7
    [] c = "8" -> 8 [] c = "9" -> 9

DigitChar(d) ==
  CASE d = 0 -> "0" [] d = 1 -> "1" [] d = 2 -> "2" [] d = 3 -> "3"
    [] d = 4 -> "4" [] d = 5 -> "5" [] d = 6 -> "6" [] d = 7 -> "7"
    [] d = 8 -> "8" [] d = 9 -> "9"

(***************************************************************************)
(* Regular-expression pieces                                               *)
(***************************************************************************)
\* The literal `word` (lower case) matches text at position i, ignoring case.
MatchAt(text, i, word) ==
  /\ i >= 1
  /\ i + Len(word) - 1 <= Len(text)
  /\ \A k \in 1..Len(word) : Lower(text[i + k - 1]) = word[k]

\* \s* from position i: the first position at or after i that holds no space.
SkipSpaces(text, i) ==
  IF i > Len(text) THEN i
  ELSE CHOOSE j \in i..(Len(text) + 1) :
         /\ j > Len(text) \/ ~IsSpace(text[j])
         /\ \A k \in i..(j - 1) : IsSpace(text[k])

\* \d+ from position i: the position after the last digit of the run.
SkipDigits(text, i) ==
  IF i > Len(text) THEN i
  ELSE CHOOSE j \in i..(Len(text) + 1) :
         /\ j > Len(text) \/ ~IsDigit(text[j])
         /\ \A k \in i..(j - 1) : IsDigit(text[k])

\* \b between positions i-1 and i.
WordBoundary(text, i) ==
  LET before == i > 1 /\ i - 1 <= Len(text) /\ IsWordChar(text[i - 1])
      after  == i >= 1 /\ i <= Len(text) /\ IsWordChar(text[i])
  IN  before # after

\* The first position at or after i that holds a space, or Len(text) + 1.
NextSpace(text, i) ==
  IF i > Len(text) THEN i
  ELSE CHOOSE j \in i..(Len(text) + 1) :
         /\ j > Len(text) \/ IsSpace(text[j])
         /\ \A k \in i..(j - 1) : ~IsSpace(text[k])

\* The last position that holds no space, or 0.
LastNonSpace(text) ==
  IF \A j \in 1..Len(text) : IsSpace(text[j]) THEN 0
  ELSE CHOOSE j \in 1..Len(text) :
         /\ ~IsSpace(text[j])
         /\ \A k \in (j + 1)..Len(text) : IsSpace(text[k])

\* String.prototype.trim
Trim(text) == SubSeq(text, SkipSpaces(text, 1), LastNonSpace(text))

\* replace(/\s+/g, " ") from position i on: every run of spaces becomes " ".
RECURSIVE CollapseSpaces(_, _)
CollapseSpaces(text, i) ==
  IF i > Len(text) THEN <<>>
  ELSE IF IsSpace(text[i])
       THEN <<" ">> \o CollapseSpaces(text, SkipSpaces(text, i))
       ELSE SubSeq(text, i, NextSpace(text, i) - 1)
              \o CollapseSpaces(text, NextSpace(text, i))

(***************************************************************************)
(* Literals of the source, in lower case                                   *)
(***************************************************************************)
W_aspect == <<"a", "s", "p", "e", "c", "t">>
W_ratio == <<"r", "a", "t", "i", "o">>
W_academy == <<"a", "c", "a", "d", "e", "m", "y">>
W_full == <<"f", "u", "l", "l">>
W_screen == <<"s", "c", "r", "e", "e", "n">>
W_hdtv == <<"h", "d", "t", "v">>
W_178 == <<"1", ".", "7", "8">>

\* The alternatives of the next-field pattern, in the order of the source.
NextFieldWords ==
  <<
    <<"c", "a", "m", "e", "r", "a">>,
    <<"r", "u", "n", "t", "i", "m", "e">>,
    <<"s", "o", "u", "n", "d", " ", "m", "i", "x">>,
    <<"c", "o", "l", "o", "r">>,
    <<"n", "e", "g", "a", "t", "i", "v", "e">>,
    <<"c", "i", "n", "e", "m", "a", "t", "o", "g", "r", "a", "p", "h", "i",
      "c">>,
    <<"p", "r", "i", "n", "t", "e", "d">>,
    <<"l", "a", "b", "o", "r", "a", "t", "o", "r", "y">>,
    <<"f", "i", "l", "m", " ", "l", "e", "n", "g", "t", "h">>,
    <<"c", "o", "n", "t", "r", "i", "b", "u", "t", "e", " ", "t", "o", " ",
      "t", "h", "i", "s", " ", "p", "a", "g", "e">>
  >>

\* The alternatives of the leaked-attribute pattern.
AttributeWords ==
  <<
    <<"c", "l", "a", "s", "s">>,
    <<"r", "o", "l", "e">>,
    <<"d", "a", "t", "a", "-", "t", "e", "s", "t", "i", "d">>
  >>

W_br == <<"b", "r">>

(***************************************************************************)
(* parseRatiosFromBlock, lines 247-264: markup removal                     *)
(***************************************************************************)
\* The first position at or after i that holds the character c, or 0.
IndexOfChar(text, c, i) ==
  IF \A j \in i..Len(text) : text[j] # c THEN 0
  ELSE CHOOSE j \in i..Len(text) :
         text[j] = c /\ \A k \in i..(j - 1) : text[k] # c

\* The first position at or after i where the literal word matches, or 0.
IndexOfWord(text, word, i) ==
  IF \A j \in i..Len(text) : ~MatchAt(text, j, word) THEN 0
  ELSE CHOOSE j \in i..Len(text) :
         MatchAt(text, j, word) /\ \A k \in i..(j - 1) : ~MatchAt(text, k, word)

\* The last position of a match of the tag pattern `pat` that starts at i, or 0.
\*   element: <name[\s\S]*?<\/name>     open:  <name\b[^>]*>
\*   close:   <\/name>                   br:    <br\s*\/?>
\*   any:     <[^>]*>
TagEndAt(text, i, pat) ==
  IF i > Len(text) \/ text[i] # "<" THEN 0
  ELSE
    CASE pat.kind = "element" ->
           IF MatchAt(text, i, <<"<">> \o pat.name)
           THEN LET j == IndexOfWord(text, <<"<", "/">> \o pat.name \o <<">">>,
                                     i + 1 + Len(pat.name))
                IN  IF j = 0 THEN 0 ELSE j + Len(pat.name) + 2
           ELSE 0
      [] pat.kind = "open" ->
           IF /\ MatchAt(text, i, <<"<">> \o pat.name)
              /\ WordBoundary(text, i + 1 + Len(pat.name))
           THEN IndexOfChar(text, ">", i + 1 + Len(pat.name))
           ELSE 0
      [] pat.kind = "close" ->
           IF MatchAt(text, i, <<"<", "/">> \o pat.name \o <<">">>)
           THEN i + Len(pat.name) + 2
           ELSE 0
      [] pat.kind = "br" ->
           IF MatchAt(text, i, <<"<">> \o W_br)
           THEN LET j == SkipSpaces(text, i + 3)
                    k == IF j <= Len(text) /\ text[j] = "/" THEN j + 1 ELSE j
                IN  IF k <= Len(text) /\ text[k] = ">" THEN k ELSE 0
           ELSE 0
      [] pat.kind = "any" -> IndexOfChar(text, ">", i + 1)

\* The first position at or after i where the tag pattern matches, or 0.
NextTag(text, i, pat) ==
  IF \A j \in i..Len(text) : TagEndAt(text, j, pat) = 0 THEN 0
  ELSE CHOOSE j \in i..Len(text) :
         /\ TagEndAt(text, j, pat) > 0
         /\ \A k \in i..(j - 1) : TagEndAt(text, k, pat) = 0

\* text.replace(pat, repl) with the g flag, from position i on: the matches
\* are taken left to right, each after the end of the one before.
RECURSIVE ReplaceTags(_, _, _)
ReplaceTags(text, pat, i) ==
  LET j == NextTag(text, i, pat)
  IN  IF j = 0 THEN SubSeq(text, i, Len(text))
      ELSE SubSeq(text, i, j - 1) \o pat.repl
             \o ReplaceTags(text, pat, TagEndAt(text, j, pat) + 1)

\* The replacements of lines 249-262, in the order of the source.
TagPatterns ==
  << [kind |-> "element", name |-> <<"s", "c", "r", "i", "p", "t">>, repl |-> <<>>],
     [kind |-> "element", name |-> <<"s", "t", "y", "l", "e">>, repl |-> <<>>],
     [kind |-> "open", name |-> <<"a">>, repl |-> <<" ">>],
     [kind |-> "close", name |-> <<"a">>, repl |-> <<" ">>],
     [kind |-> "open", name |-> <<"l", "i">>, repl |-> <<" ">>],
     [kind |-> "close", name |-> <<"l", "i">>, repl |-> <<" ">>],
     [kind |-> "open", name |-> <<"u", "l">>, repl |-> <<" ">>],
     [kind |-> "close", name |-> <<"u", "l">>, repl |-> <<" ">>],
     [kind |-> "open", name |-> <<"d", "i", "v">>, repl |-> <<" ">>],
     [kind |-> "close", name |-> <<"d", "i", "v">>, repl |-> <<" ">>],
     [kind |-> "open", name |-> <<"s", "p", "a", "n">>, repl |-> <<" ">>],
     [kind |-> "close", name |-> <<"s", "p", "a", "n">>, repl |-> <<" ">>],
     [kind |-> "br", name |-> W_br, repl |-> <<" ">>],
     [kind |-> "any", name |-> <<>>, repl |-> <<" ">>] >>

RECURSIVE ApplyTagPatterns(_, _)
ApplyTagPatterns(text, n) ==
  IF n > Len(TagPatterns) THEN text
  ELSE ApplyTagPatterns(ReplaceTags(text, TagPatterns[n], 1), n + 1)

\* Lines 248-264: the block with its markup removed, white space collapsed.
StripMarkup(blockHtml) ==
  Trim(CollapseSpaces(ApplyTagPatterns(blockHtml, 1), 1))

(***************************************************************************)
(* parseRatiosFromBlock, lines 266-278: the text between the label and     *)
(* the next field                                                          *)
(***************************************************************************)
\* A match of aspect\s*ratio\s* starts at i: the position after it, or 0.
LabelEndAt(text, i) ==
  IF MatchAt(text, i, W_aspect)
  THEN LET j == SkipSpaces(text, i + Len(W_aspect))
       IN  IF MatchAt(text, j, W_ratio)
           THEN SkipSpaces(text, j + Len(W_ratio))
           ELSE 0
  ELSE 0

\* The first position where aspect\s*ratio matches, or 0.
FirstLabel(text) ==
  IF \A j \in 1..Len(text) : LabelEndAt(text, j) = 0 THEN 0
  ELSE CHOOSE j \in 1..Len(text) :
         LabelEndAt(text, j) > 0 /\ \A k \in 1..(j - 1) : LabelEndAt(text, k) = 0

\* Line 267: text.replace(/^[\s\S]*?aspect\s*ratio\s*/i, "")
AfterLabel(text) ==
  LET i == FirstLabel(text)
  IN  IF i = 0 THEN text ELSE SubSeq(text, LabelEndAt(text, i), Len(text))

\* \b(w1|w2|...)\b matches at position i.
NextFieldAt(text, i) ==
  /\ WordBoundary(text, i)
  /\ \E n \in 1..Len(NextFieldWords) :
       /\ MatchAt(text, i, NextFieldWords[n])
       /\ WordBoundary(text, i + Len(NextFieldWords[n]))

FirstNextField(text) ==
  IF \A j \in 1..Len(text) : ~NextFieldAt(text, j) THEN 0
  ELSE CHOOSE j \in 1..Len(text) :
         NextFieldAt(text, j) /\ \A k \in 1..(j - 1) : ~NextFieldAt(text, k)

\* The text after the label kept up to its end.
KeepNextField(afterLabel) == Trim(afterLabel)

\* Lines 268-273: cut at the first next-field label, then trim.
ClipNextField(afterLabel) ==
  LET i == FirstNextField(afterLabel)
  IN  Trim(IF i = 0 THEN afterLabel ELSE SubSeq(afterLabel, 1, i - 1))

\* \b(class|role|data-testid)\s*= matches at position i.
AttributeAt(text, i) ==
  /\ WordBoundary(text, i)
  /\ \E n \in 1..Len(AttributeWords) :
       /\ MatchAt(text, i, AttributeWords[n])
       /\ LET j == SkipSpaces(text, i + Len(AttributeWords[n]))
          IN  j <= Len(text) /\ text[j] = "="

FirstAttribute(text) ==
  IF \A j \in 1..Len(text) : ~AttributeAt(text, j) THEN 0
  ELSE CHOOSE j \in 1..Len(text) :
         AttributeAt(text, j) /\ \A k \in 1..(j - 1) : ~AttributeAt(text, k)

\* Lines 276-278: cut at the first leaked attribute, then trim.
ClipAttributes(clipped) ==
  LET i == FirstAttribute(clipped)
  IN  Trim(IF i = 0 THEN clipped ELSE SubSeq(clipped, 1, i - 1))

\* Lines 248-278: the text that is split into segments.
CleanedText(blockHtml) ==
  ClipAttributes(ClipNextField(AfterLabel(StripMarkup(blockHtml))))

(***************************************************************************)
(* parseRatiosFromBlock, lines 280-300: segments                           *)
(***************************************************************************)
\* /[•·|;]/
IsSeparator(c) == c \in {"U+2022", "U+00B7", "|", ";"}

\* Line 293 and line 300: a segment is kept when it is not blank.
PushPart(parts, current) ==
  IF Trim(current) # <<>> THEN Append(parts, Trim(current)) ELSE parts

\* Lines 288-289: the depth after the character c.
DepthAfter(parenDepth, c) ==
  IF c = "(" THEN parenDepth + 1
  ELSE IF c = ")" THEN parenDepth - 1
  ELSE parenDepth

\* Lines 286-300: the loop over the characters of cleaned.
RECURSIVE SplitLoop(_, _, _, _, _)
SplitLoop(cleaned, i, current, parenDepth, parts) ==
  IF i > Len(cleaned) THEN PushPart(parts, current)
  ELSE LET c == cleaned[i]
           d == DepthAfter(parenDepth, c)
       IN  IF d = 0 /\ IsSeparator(c)
           THEN SplitLoop(cleaned, i + 1, <<>>, d, PushPart(parts, current))
           ELSE SplitLoop(cleaned, i + 1, Append(current, c), d, parts)

SplitParts(cleaned) == SplitLoop(cleaned, 1, <<>>, 0, <<>>)

(***************************************************************************)
(* Numbers                                                                 *)
(***************************************************************************)
\* The digits of a run without its leading zeros ("000" gives <<>>).
RECURSIVE DropLeadingZeros(_)
DropLeadingZeros(ds) ==
  IF Len(ds) > 0 /\ ds[1] = "0" THEN DropLeadingZeros(Tail(ds)) ELSE ds

\* The number of zeros that end a run of digits.
RECURSIVE TrailingZeros(_)
TrailingZeros(ds) ==
  IF Len(ds) > 0 /\ ds[Len(ds)] = "0"
  THEN 1 + TrailingZeros(SubSeq(ds, 1, Len(ds) - 1))
  ELSE 0

\* The natural number a run of digits writes.
RECURSIVE DigitsValue(_)
DigitsValue(ds) ==
  IF Len(ds) = 0 THEN 0
  ELSE 10 * DigitsValue(SubSeq(ds, 1, Len(ds) - 1)) + DigitVal(ds[Len(ds)])

\* The decimal digits of a natural number.
RECURSIVE NatToText(_)
NatToText(n) ==
  IF n < 10 THEN <<DigitChar(n)>>
  ELSE Append(NatToText(n \div 10), DigitChar(n % 10))

\* parseFloat on a text of the shape \d+(\.\d+)? : the decimal number the
\* text writes, d * 10^e, where d is the run of its significant digits (no
\* zero at either end; <<>> for the number 0).  The JavaScript number is
\* the double nearest to it, the value of Decimal.
ParseFloat(s) ==
  LET dot  == IndexOfChar(s, ".", 1)
      int  == IF dot = 0 THEN s ELSE SubSeq(s, 1, dot - 1)
      frac == IF dot = 0 THEN <<>> ELSE SubSeq(s, dot + 1, Len(s))
      all  == DropLeadingZeros(int \o frac)
      z    == TrailingZeros(all)
      sig  == SubSeq(all, 1, Len(all) - z)
  IN  IF sig = <<>> THEN [d |-> <<>>, e |-> 0]
      ELSE [d |-> sig, e |-> z - Len(frac)]

\* The operands of num / den for den # 0.  The number is the double the
\* division of the two doubles gives, the value of DoubleOf.
Quotient(num, den) == [num |-> num, den |-> den]

(***************************************************************************)
(* Natural numbers of any size: the sequence of the digits in base 2^15,   *)
(* the lowest first, without a zero at the top; 0 is <<>>.                 *)
(***************************************************************************)

Radix == 2^15

\* The number of binary digits of n, n below the radix.
Bits(n) == Cardinality({i \in 0..14 : 2^i <= n})

Max(a, b) == IF a >= b THEN a ELSE b

RECURSIVE BigTrim(_)
BigTrim(a) ==
  IF a # <<>> /\ a[Len(a)] = 0 THEN BigTrim(SubSeq(a, 1, Len(a) - 1)) ELSE a

BigBits(a) == IF a = <<>> THEN 0 ELSE 15 * (Len(a) - 1) + Bits(a[Len(a)])

\* -1, 0 or 1 as a is below, equal to or above b.
RECURSIVE CmpFrom(_, _, _)
CmpFrom(a, b, i) ==
  IF i = 0 THEN 0
  ELSE IF a[i] > b[i] THEN 1
  ELSE IF a[i] < b[i] THEN -1
  ELSE CmpFrom(a, b, i - 1)

BigCmp(a, b) ==
  IF Len(a) > Len(b) THEN 1
  ELSE IF Len(a) < Len(b) THEN -1
  ELSE CmpFrom(a, b, Len(a))

Limb(a, i) == IF i <= Len(a) THEN a[i] ELSE 0

RECURSIVE AddFrom(_, _, _, _)
AddFrom(a, b, i, c) ==
  LET Sum(x) == <<x % Radix>> \o AddFrom(a, b, i + 1, x \div Radix)
  IN  IF i > Len(a) /\ i > Len(b) THEN (IF c = 0 THEN <<>> ELSE <<c>>)
      ELSE Sum(Limb(a, i) + Limb(b, i) + c)

BigAdd(a, b) == AddFrom(a, b, 1, 0)

\* a - b for a >= b.
RECURSIVE SubFrom(_, _, _, _)
SubFrom(a, b, i, c) ==
  LET Diff(x) == <<(x + Radix) % Radix>>
                   \o SubFrom(a, b, i + 1, IF x < 0 THEN 1 ELSE 0)
  IN  IF i > Len(a) THEN <<>> ELSE Diff(a[i] - Limb(b, i) - c)

BigSub(a, b) == BigTrim(SubFrom(a, b, 1, 0))

\* a * k + c for k and c below the radix.
RECURSIVE MulAddFrom(_, _, _, _)
MulAddFrom(a, i, k, c) ==
  LET Sum(x) == <<x % Radix>> \o MulAddFrom(a, i + 1, k, x \div Radix)
  IN  IF i > Len(a) THEN (IF c = 0 THEN <<>> ELSE <<c>>)
      ELSE Sum(a[i] * k + c)

BigMulAdd(a, k, c) == BigTrim(MulAddFrom(a, 1, k, c))

\* The quotient of a by k, 0 < k below the radix: the digits i, i-1, ... 1
\* with the remainder r carried from above.
RECURSIVE QuoFrom(_, _, _, _)
QuoFrom(a, i, k, r) ==
  LET Of(x) == Append(QuoFrom(a, i - 1, k, x % k), x \div k)
  IN  IF i = 0 THEN <<>> ELSE Of(r * Radix + a[i])

BigDivSmall(a, k) == BigTrim(QuoFrom(a, Len(a), k, 0))

RECURSIVE ModFrom(_, _, _, _)
ModFrom(a, i, k, r) ==
  IF i = 0 THEN r ELSE ModFrom(a, i - 1, k, (r * Radix + a[i]) % k)

BigModSmall(a, k) == ModFrom(a, Len(a), k, 0)

\* a * 2^s and floor(a / 2^s).
BigShl(a, s) ==
  IF a = <<>> THEN <<>>
  ELSE [i \in 1..(s \div 15) |-> 0] \o BigMulAdd(a, 2^(s % 15), 0)

BigShr(a, s) ==
  IF s \div 15 >= Len(a) THEN <<>>
  ELSE BigDivSmall(SubSeq(a, s \div 15 + 1, Len(a)), 2^(s % 15))

\* One step of the long division by d, whose top digit is at least half the
\* radix: the remainder st.r so far (below d) takes the next digit x of the
\* dividend.  The quotient h of the two top digits of the new remainder by
\* the top digit of d, at most Radix - 1, is the next digit of the quotient
\* or exceeds it by at most 2 (Knuth, The Art of Computer Programming
\* 4.3.1, Theorem B): the digit is the largest of h - 2, h - 1, h whose
\* product with d is not above the remainder.
DivStep(st, d, x) ==
  LET Top(r) ==
        (Limb(r, Len(d) + 1) * Radix + Limb(r, Len(d))) \div d[Len(d)]
      Cap(h) == IF h < Radix THEN h ELSE Radix - 1
      Best(r, C) ==
        CHOOSE c \in C :
          /\ BigCmp(c.p, r) <= 0
          /\ \A o \in C : BigCmp(o.p, r) <= 0 => o.k <= c.k
      Taken(r, c) == [q |-> <<c.k>> \o st.q, r |-> BigSub(r, c.p)]
      Tried(r, h) ==
        Taken(r, Best(r, {[k |-> k, p |-> BigMulAdd(d, k, 0)] :
                            k \in {j \in (h - 2)..h : j >= 0}}))
      Of(r) == Tried(r, Cap(Top(r)))
  IN  IF st.r = <<>> /\ x = 0 THEN [q |-> <<0>> \o st.q, r |-> <<>>]
      ELSE Of(BigTrim(<<x>> \o st.r))

\* The long division of n by d from the digit j of n down, for n below
\* d * Radix^4.
RECURSIVE LongDiv(_, _, _)
LongDiv(n, d, j) ==
  IF j > 4 THEN [q |-> <<>>, r |-> SubSeq(n, 5, Len(n))]
  ELSE DivStep(LongDiv(n, d, j + 1), d, Limb(n, j))

\* floor(n / d) and the remainder, for d with a top digit of at least half
\* the radix and n < d * 2^60.
BigDivMod(n, d) ==
  LET Of(qr) == [q |-> BigTrim(qr.q), r |-> qr.r]
  IN  Of(LongDiv(n, d, 1))

\* a * 10^k, four digits at a time.
RECURSIVE BigTimesPow10(_, _)
BigTimesPow10(a, k) ==
  IF k <= 0 THEN a
  ELSE IF k < 4 THEN BigMulAdd(a, 10^k, 0)
  ELSE BigTimesPow10(BigMulAdd(a, 10000, 0), k - 4)

\* The number a run of decimal digits writes, four digits at a time.
RECURSIVE BigFromDigits(_)
BigFromDigits(ds) ==
  IF Len(ds) <= 4 THEN BigTrim(<<DigitsValue(ds)>>)
  ELSE BigMulAdd(BigFromDigits(SubSeq(ds, 1, Len(ds) - 4)), 10000,
                 DigitsValue(SubSeq(ds, Len(ds) - 3, Len(ds))))

\* The decimal digits of a, four at a time; none for 0.
RECURSIVE BigDigits(_)
BigDigits(a) ==
  LET Four(n) == <<DigitChar(n \div 1000), DigitChar((n \div 100) % 10),
                   DigitChar((n \div 10) % 10), DigitChar(n % 10)>>
  IN  IF a = <<>> THEN <<>>
      ELSE IF Len(a) = 1 /\ a[1] < 10000 THEN NatToText(a[1])
      ELSE BigDigits(BigDivSmall(a, 10000)) \o Four(BigModSmall(a, 10000))

(***************************************************************************)
(* Doubles.  A positive double is m * 2^e, the record [m, e]: a normal one *)
(* has 2^52 <= m < 2^53 and -1074 <= e <= 971, a subnormal one m < 2^52    *)
(* and e = -1074.  The double 0 is DZero; Infinity and NaN are the two     *)
(* records below.  No number of the source is negative.                    *)
(***************************************************************************)
DZero == [m |-> <<>>, e |-> 0]

Infinity == [m |-> <<>>, e |-> 1024]

NaN == [m |-> <<>>, e |-> -1]

Min(a, b) == IF a <= b THEN a ELSE b

\* The quotient qr.q (of 55 or 56 binary digits) and remainder qr.r of a
\* division, times 2^e, rounded to a double, ties to the even: to 53
\* binary digits, or to the multiple of 2^-1074 when that keeps fewer; from
\* 2^1024 on the result is Infinity.
RoundToEven(qr, e) ==
  LET Kept(x) == BigShr(qr.q, x)
      Odd(k) == k # <<>> /\ k[1] % 2 = 1
      Above(x) ==
        BigCmp(BigSub(qr.q, BigShl(Kept(x), x)), BigShl(<<1>>, x - 1))
      Raised(x, c) ==
        c > 0 \/ (c = 0 /\ (qr.r # <<>> \/ Odd(Kept(x))))
      Ranged(m, e1) ==
        IF m = <<>> THEN DZero
        ELSE IF e1 > 971 THEN Infinity
        ELSE [m |-> m, e |-> e1]
      Carry(m, e1) ==
        IF BigBits(m) = 54 THEN Ranged(BigShl(<<1>>, 52), e1 + 1)
        ELSE Ranged(m, e1)
      Cut(x) ==
        Carry(BigMulAdd(Kept(x), 1, IF Raised(x, Above(x)) THEN 1 ELSE 0),
              e + x)
  IN  Cut(Max(BigBits(qr.q) - 53, Min(-1074 - e, BigBits(qr.q) + 1)))

\* The double nearest to (a / b) * 2^e0, ties to the even m: the rounding
\* of IEEE 754 that every operation on numbers applies to its exact result.
\* With s the quotient of a * 2^s by b has 55 or 56 binary digits; t more
\* digits on both sides fill the top digit of the divisor.  A divisor 0
\* stands for the results Infinity (a > 0) and NaN (a = 0).
Fl(a, b, e0) ==
  LET Divided(s, t) ==
        RoundToEven(BigDivMod(BigShl(a, Max(s, 0) + t),
                              BigShl(b, Max(-s, 0) + t)),
                    e0 - s)
      Scaled(s) == Divided(s, (15 - ((BigBits(b) + Max(-s, 0)) % 15)) % 15)
  IN  IF b = <<>> THEN (IF a = <<>> THEN NaN ELSE Infinity)
      ELSE IF a = <<>> THEN DZero
      ELSE Scaled(55 - (BigBits(a) - BigBits(b)))

\* The two numbers m1 * 2^e1 and m2 * 2^e2 over the common power of two.
Aligned(x, y) ==
  IF x.e <= y.e
  THEN [a |-> x.m, b |-> BigShl(y.m, y.e - x.e), e |-> x.e]
  ELSE [a |-> BigShl(x.m, x.e - y.e), b |-> y.m, e |-> y.e]

\* x <= y
DLeq(x, y) ==
  LET Of(al) == BigCmp(al.a, al.b) <= 0
  IN  IF x = NaN \/ y = NaN THEN FALSE
      ELSE IF y = Infinity THEN TRUE
      ELSE IF x = Infinity THEN FALSE
      ELSE Of(Aligned(x, y))

\* floor(m * 2^e + 1/2), a natural number.
RoundHalfUp(m, e) ==
  IF m = <<>> THEN <<>>
  ELSE IF e >= 0 THEN BigShl(m, e)
  ELSE BigShr(BigAdd(m, BigShl(<<1>>, -e - 1)), -e)

(***************************************************************************)
(* Number expressions of the source and their values.  An expression is    *)
(*   Decimal(x)     the number of the decimal number x (parseFloat of a    *)
(*                  text, or a literal),                                    *)
(*   Whole(n)       the number of the natural number n,                    *)
(*   Over(l, r)     l / r,                                                 *)
(*   Times100(l)    l * 100,                                               *)
(*   AbsMinus(l, r) Math.abs(l - r),                                       *)
(*   Round(l)       Math.round(l).                                         *)
(* Each of them is the exact result rounded once, by Fl.                   *)
(***************************************************************************)
Decimal(x) == [op |-> "decimal", x |-> x]

Whole(n) == [op |-> "whole", n |-> n]

Over(l, r) == [op |-> "/", l |-> l, r |-> r]

Times100(l) == [op |-> "*100", l |-> l]

AbsMinus(l, r) == [op |-> "abs-", l |-> l, r |-> r]

Round(l) == [op |-> "round", l |-> l]

\* The double an expression evaluates to.  The exact result is the
\* fraction (a / b) * 2^e; Infinity is 1 / 0 and NaN is 0 / 0.  A decimal
\* number of more than 310 digits before the point is above every double
\* (10^309 > 2^1024), one with 330 zeros after it rounds to 0
\* (10^-330 < 2^-1075).
RECURSIVE ValueOf(_)
ValueOf(x) ==
  LET Exactly(v) ==
        IF v = NaN THEN [a |-> <<>>, b |-> <<>>, e |-> 0]
        ELSE IF v = Infinity THEN [a |-> <<1>>, b |-> <<>>, e |-> 0]
        ELSE [a |-> v.m, b |-> <<1>>, e |-> v.e]
      Parsed(d) ==
        IF d.d = <<>> \/ d.e + Len(d.d) < -330 THEN Exactly(DZero)
        ELSE IF d.e + Len(d.d) > 310 THEN Exactly(Infinity)
        ELSE [a |-> BigTimesPow10(BigFromDigits(d.d), d.e),
              b |-> BigTimesPow10(<<1>>, -d.e), e |-> 0]
      Quot(l, r) ==
        IF \/ l = NaN \/ r = NaN
           \/ l = Infinity /\ r = Infinity
           \/ l = DZero /\ r = DZero
        THEN Exactly(NaN)
        ELSE IF l = Infinity \/ r = DZero THEN Exactly(Infinity)
        ELSE IF r = Infinity THEN Exactly(DZero)
        ELSE [a |-> l.m, b |-> r.m, e |-> l.e - r.e]
      Prod(l) ==
        IF l = NaN \/ l = Infinity THEN Exactly(l)
        ELSE [a |-> BigMulAdd(l.m, 100, 0), b |-> <<1>>, e |-> l.e]
      Gap(al) == [a |-> IF BigCmp(al.a, al.b) >= 0 THEN BigSub(al.a, al.b)
                        ELSE BigSub(al.b, al.a),
                  b |-> <<1>>, e |-> al.e]
      Diff(l, r) ==
        IF l = NaN \/ r = NaN \/ (l = Infinity /\ r = Infinity)
        THEN Exactly(NaN)
        ELSE IF l = Infinity \/ r = Infinity THEN Exactly(Infinity)
        ELSE Gap(Aligned(l, r))
      Nearest(l) ==
        IF l = NaN \/ l = Infinity THEN Exactly(l)
        ELSE [a |-> RoundHalfUp(l.m, l.e), b |-> <<1>>, e |-> 0]
      Rounded(o) == Fl(o.a, o.b, o.e)
  IN  Rounded(CASE x.op = "decimal" -> Parsed(x.x)
                [] x.op = "whole" -> [a |-> x.n, b |-> <<1>>, e |-> 0]
                [] x.op = "/" -> Quot(ValueOf(x.l), ValueOf(x.r))
                [] x.op = "*100" -> Prod(ValueOf(x.l))
                [] x.op = "abs-" -> Diff(ValueOf(x.l), ValueOf(x.r))
                [] x.op = "round" -> Nearest(ValueOf(x.l)))

\* The expression of a ratio value: parseFloat(m[1]) / parseFloat(m[2]).
DoubleOf(val) == Over(Decimal(val.num), Decimal(val.den))

\* The decimal number x is between 10^-300 and 10^300: its number is a
\* normal double.
Normal(x) == x.d # <<>> /\ x.e >= -300 /\ x.e + Len(x.d) <= 300

\* The number of the decimal number x is 0, Infinity or another number.
\* The rounding to the nearest double, ties to the even, gives 0 up to
\* 2^-1075, half the least double, and Infinity from 2^1024 - 2^970 on,
\* halfway between the largest double and 2^1024.
NumberClass(x) ==
  LET Cmp(n, t) == BigCmp(BigTimesPow10(n, Max(x.e, 0)),
                          BigTimesPow10(t, Max(-x.e, 0)))
      Of(n) ==
        IF Cmp(BigShl(n, 1075), <<1>>) <= 0 THEN "zero"
        ELSE IF Cmp(n, BigShl(BigSub(BigShl(<<1>>, 54), <<1>>), 970)) >= 0
        THEN "infinite"
        ELSE "finite"
  IN  IF x.d = <<>> \/ x.e + Len(x.d) < -330 THEN "zero"
      ELSE IF Normal(x) THEN "finite"
      ELSE IF x.e + Len(x.d) > 310 THEN "infinite"
      ELSE Of(BigFromDigits(x.d))

(***************************************************************************)
(* Lines 310-312: (Math.round((num / den) * 100) / 100).toFixed(2)         *)
(***************************************************************************)
\* val as the fraction P / Q of two natural numbers, for operands short
\* enough for the integers of the model.
Numerator(val) ==
  DigitsValue(val.num.d) * 10^Max(val.num.e - val.den.e, 0)

Denominator(val) ==
  DigitsValue(val.den.d) * 10^Max(val.den.e - val.num.e, 0)

\* P and Q have at most five decimal digits, and the numbers of num and
\* den are normal doubles (or num is 0).
SmallFraction(val) ==
  /\ Normal(val.den)
  /\ val.num.d = <<>> \/ Normal(val.num)
  /\ Len(val.num.d) + Max(val.num.e - val.den.e, 0) <= 5
  /\ Len(val.den.d) + Max(val.den.e - val.num.e, 0) <= 5

\* The digits of a number of hundredths with the point before the last two:
\* "5" gives "0.05".
PointText(ds) ==
  LET Padded(t) ==
        SubSeq(t, 1, Len(t) - 2) \o <<".">> \o SubSeq(t, Len(t) - 1, Len(t))
  IN  Padded(IF Len(ds) >= 3 THEN ds
             ELSE [i \in 1..(3 - Len(ds)) |-> "0"] \o ds)

\* d[.ddd]e+n for the decimal number d * 10^e, d a run of significant digits.
ExponentialText(d, e) ==
  <<d[1]>> \o (IF Len(d) > 1 THEN <<".">> \o Tail(d) ELSE <<>>)
    \o <<"e", "+">> \o NatToText(e + Len(d) - 1)

\* x >= 10^21, the threshold of Number.prototype.toFixed, for a finite x.
AtLeast1e21(x) ==
  /\ x.e > 0
  /\ BigCmp(BigShl(x.m, x.e), BigTimesPow10(<<1>>, 21)) >= 0

\* The run ds of decimal digits cut after its first k digits, with up (0
\* or 1) added in the last place kept: a decimal number.
CutDigits(ds, k, up) ==
  LET Of(c) == [d |-> SubSeq(c, 1, Len(c) - TrailingZeros(c)),
                e |-> Len(ds) - k + TrailingZeros(c)]
  IN  Of(BigDigits(BigMulAdd(BigFromDigits(SubSeq(ds, 1, k)), 1, up)))

\* Of the two decimal numbers of k digits next to the run ds, the one
\* above is the nearer (1) or the one below (0); halfway, the even one.
NearerUp(ds, k) ==
  LET Up(tail) ==
        \/ DigitVal(tail[1]) > 5
        \/ /\ DigitVal(tail[1]) = 5
           /\ \/ \E i \in 2..Len(tail) : tail[i] # "0"
              \/ DigitVal(ds[k]) % 2 = 1
  IN  IF Up(SubSeq(ds, k + 1, Len(ds))) THEN 1 ELSE 0

\* Number::toString, step 5: for the integer x of the digits ds (more than
\* 17), the decimal number of the least number k of digits whose number
\* value is x, and of two such the nearer to x.  The candidates of k digits
\* are the two next to x.  17 digits always do, and when k digits do, more
\* digits do: k is one more than the number of lengths that do not.
ShortestDigits(x, ds) ==
  LET Pick(c, up) == IF c[up].reads THEN c[up].dec ELSE c[1 - up].dec
      Least(C, k) == Pick(C[k], NearerUp(ds, k))
      Of(C) ==
        Least(C, 1 + Cardinality({k \in 1..16 :
                                    ~C[k][0].reads /\ ~C[k][1].reads}))
      Read(dec) == [dec |-> dec, reads |-> ValueOf(Decimal(dec)) = x]
  IN  Of([k \in 1..17 |-> [up \in 0..1 |-> Read(CutDigits(ds, k, up))]])

\* Number::toString(x) for a finite x >= 10^21: the shortest decimal number
\* whose number value is x, in exponential notation.
NumberToString(x) ==
  LET Of(dec) == ExponentialText(dec.d, dec.e)
  IN  Of(ShortestDigits(x, BigDigits(BigShl(x.m, x.e))))

\* x.toFixed(2): "NaN" and "Infinity" for these; below 10^21 the integer n
\* for which n / 100 - x is closest to zero, the larger of two, written
\* with two decimals; from 10^21 on Number::toString(x).
ToFixed2(x) ==
  IF x = NaN THEN <<"N", "a", "N">>
  ELSE IF x = Infinity THEN <<"I", "n", "f", "i", "n", "i", "t", "y">>
  ELSE IF AtLeast1e21(x) THEN NumberToString(x)
  ELSE PointText(BigDigits(RoundHalfUp(BigMulAdd(x.m, 100, 0), x.e)))

\* 100 * P / Q is half an odd integer: the only quotients of short operands
\* for which the rounding of the doubles can change Math.round.
HalfwayHundredths(val) ==
  (200 * Numerator(val) + Denominator(val)) % (2 * Denominator(val)) = 0

\* Line 310: the expression Math.round((num / den) * 100).
\* The four roundings of num, den, num / den and the product by 100 move
\* the product by less than 5 * 2^-53 of its value, at most 10^7, and a
\* quotient 100 P / Q that is not half an odd integer is at least 1 / (2 Q)
\* away from the next one; so for P and Q of at most five digits and normal
\* doubles Math.round gives floor(100 P / Q + 1/2), the integer of exact
\* arithmetic, except halfway, where the doubles decide.
RoundHundredths(val) ==
  LET Of(h) == Whole(BigTrim(<<h % Radix, h \div Radix>>))
  IN  IF SmallFraction(val) /\ ~HalfwayHundredths(val)
      THEN Of((200 * Numerator(val) + Denominator(val))
                \div (2 * Denominator(val)))
      ELSE Round(Times100(DoubleOf(val)))

\* Lines 310-312: (Math.round((num / den) * 100) / 100).toFixed(2).
NormalizedNumber(val) ==
  ToFixed2(ValueOf(Over(RoundHundredths(val), Whole(<<100>>))))

(***************************************************************************)
(* The ratio pattern /(\d+(?:\.\d+)?)\s*:\s*(\d+(?:\.\d+)?)/               *)
(***************************************************************************)
NoMatch == [found |-> FALSE]

\* The position after a match of \d+(?:\.\d+)? that starts at i (i on a digit).
NumberEnd(text, i) ==
  LET a == SkipDigits(text, i)
  IN  IF a + 1 <= Len(text) /\ text[a] = "." /\ IsDigit(text[a + 1])
      THEN SkipDigits(text, a + 1)
      ELSE a

\* The match of the pattern that starts at position i, or NoMatch.
RatioMatchAt(text, i) ==
  IF i > Len(text) \/ ~IsDigit(text[i]) THEN NoMatch
  ELSE LET b == NumberEnd(text, i)
           c == SkipSpaces(text, b)
       IN  IF c > Len(text) \/ text[c] # ":" THEN NoMatch
           ELSE LET d == SkipSpaces(text, c + 1)
                IN  IF d > Len(text) \/ ~IsDigit(text[d]) THEN NoMatch
                    ELSE [found |-> TRUE, start |-> i,
                          end |-> NumberEnd(text, d) - 1,
                          num |-> SubSeq(text, i, b - 1),
                          den |-> SubSeq(text, d, NumberEnd(text, d) - 1)]

\* String.prototype.match without the g flag: the leftmost match.
RatioMatch(text) ==
  IF \A j \in 1..Len(text) : ~RatioMatchAt(text, j).found THEN NoMatch
  ELSE RatioMatchAt(text,
         CHOOSE j \in 1..Len(text) :
           /\ RatioMatchAt(text, j).found
           /\ \A k \in 1..(j - 1) : ~RatioMatchAt(text, k).found)

(***************************************************************************)
(* parseRatiosFromBlock, lines 302-337: one entry per segment              *)
(***************************************************************************)
\* text.replace(/\s*/g, "")
NotSpace(c) == ~IsSpace(c)

RemoveSpaces(text) == SelectSeq(text, NotSpace)

\* Lines 314-316: the parenthetical note that follows the ratio, or null.
\* afterRatio.match(/^\s*\(([^)]+)\)/), the group trimmed.
NoteAfter(p, m) ==
  LET afterRatio == Trim(SubSeq(p, m.end + 1, Len(p)))
      i == SkipSpaces(afterRatio, 1)
      close == IndexOfChar(afterRatio, ")", i + 1)
  IN  IF i <= Len(afterRatio) /\ afterRatio[i] = "(" /\ close > i + 1
      THEN Trim(SubSeq(afterRatio, i + 1, close - 1))
      ELSE Null

\* Lines 307-323: the entries a segment with the numeric match m adds.
NumericEntries(p, m) ==
  LET num == ParseFloat(m.num)
      den == ParseFloat(m.den)
      class == [k \in {"num", "den"} |-> NumberClass(ParseFloat(m[k]))]
  IN  IF class["den"] # "zero" /\ class["num"] # "zero"
      THEN << [ratio |-> NormalizedNumber(Quotient(num, den)) \o <<":", "1">>,
               raw   |-> RemoveSpaces(SubSeq(p, m.start, m.end)),
               note  |-> NoteAfter(p, m)] >>
      ELSE <<>>

\* The literal word occurs in text (text already in lower case).
Contains(text, word) == IndexOfWord(text, word, 1) > 0

\* /a\s*:?\s*b/ matches at position i, for the digit runs a and b.
PairAt(text, i, a, b) ==
  /\ MatchAt(text, i, a)
  /\ LET j == SkipSpaces(text, i + Len(a))
         k == IF j <= Len(text) /\ text[j] = ":" THEN SkipSpaces(text, j + 1) ELSE j
     IN  MatchAt(text, k, b)

\* /\bfull\s*screen\b/ matches at position i.
FullScreenAt(text, i) ==
  /\ WordBoundary(text, i)
  /\ MatchAt(text, i, W_full)
  /\ LET j == SkipSpaces(text, i + Len(W_full))
     IN  MatchAt(text, j, W_screen) /\ WordBoundary(text, j + Len(W_screen))

\* Line 329: /academy/
IsAcademy(lowered) == Contains(lowered, W_academy)

\* Line 331: /4\s*:?\s*3|\bfull\s*screen\b/
IsFullScreen(lowered) ==
  \E i \in 1..Len(lowered) :
    PairAt(lowered, i, <<"4">>, <<"3">>) \/ FullScreenAt(lowered, i)

\* Line 333: /16\s*:?\s*9|hdtv|1\.78/
IsHdtv(lowered) ==
  \/ \E i \in 1..Len(lowered) : PairAt(lowered, i, <<"1", "6">>, <<"9">>)
  \/ Contains(lowered, W_hdtv)
  \/ Contains(lowered, W_178)

\* The code units of the code point that the code unit i of text belongs
\* to: a surrogate pair when the code unit is one half of it.
CodePointAt(text, i) ==
  IF Len(text[i]) = 1 THEN <<text[i]>>
  ELSE IF /\ text[i] \in HighSurrogates /\ i < Len(text)
          /\ text[i + 1] \in LowSurrogates
  THEN <<text[i], text[i + 1]>>
  ELSE IF /\ text[i] \in LowSurrogates /\ i > 1
          /\ text[i - 1] \in HighSurrogates
  THEN <<text[i - 1], text[i]>>
  ELSE <<text[i]>>

\* The condition Final_Sigma of SpecialCasing.txt for the capital sigma at
\* i: before it, over code points that are Case_Ignorable, stands a cased
\* letter, and after it, over such code points, stands none.
FinalSigma(text, i) ==
  LET Class(u) == IF u \in CaseIgnorable THEN "ignorable"
                  ELSE IF u \in Cased THEN "cased"
                  ELSE "other"
      Of(class) ==
        /\ \E j \in 1..(i - 1) :
             /\ class[j] = "cased"
             /\ \A k \in (j + 1)..(i - 1) : class[k] = "ignorable"
        /\ ~\E j \in (i + 1)..Len(text) :
             /\ class[j] = "cased"
             /\ \A k \in (i + 1)..(j - 1) : class[k] = "ignorable"
  IN  Of([j \in 1..Len(text) |-> Class(CodePointAt(text, j))])

\* The lower case of the code unit i of text: one code unit, and two for
\* U+0130.  The capital sigma U+03A3 gives the final sigma U+03C2 where
\* Final_Sigma holds and the small sigma U+03C3 elsewhere.  A half of a
\* surrogate pair gives the same half of the lower case of the pair, a
\* surrogate without its other half itself.
LowerCaseAt(text, i) ==
  LET Half(u, low) ==
        IF Len(u) = 1 THEN low
        ELSE <<low[IF text[i] = u[1] THEN 1 ELSE 2]>>
      Of(u) == Half(u, LowerCase(u))
  IN  IF Len(text[i]) = 1 THEN <<Lower(text[i])>>
      ELSE IF text[i] = "U+03A3"
      THEN (IF FinalSigma(text, i) THEN <<"U+03C2">> ELSE <<"U+03C3">>)
      ELSE Of(CodePointAt(text, i))

\* String.prototype.toLowerCase on one code unit that is a text of its
\* own: the code units of its lower case.  A string of one character is a
\* code unit of ASCII.
LowerCaseOf(c) == LowerCaseAt(<<c>>, 1)

\* The lower case of text from its code unit n on: up to the next U+0130,
\* the only code unit with a lower case of two, and from there on.
RECURSIVE LowerCaseFrom(_, _)
LowerCaseFrom(text, n) ==
  LET Joined(low) ==
        [i \in 1..(Len(low) - 1) |-> low[i][1]] \o low[Len(low)]
      UpTo(k) == Joined([i \in 1..(k - n + 1) |-> LowerCaseAt(text, n + i - 1)])
      Cut(k) ==
        UpTo(IF k = 0 THEN Len(text) ELSE k)
          \o (IF k = 0 THEN <<>> ELSE LowerCaseFrom(text, k + 1))
  IN  IF n > Len(text) THEN <<>> ELSE Cut(IndexOfChar(text, "U+0130", n))

\* String.prototype.toLowerCase
ToLowerCase(text) == LowerCaseFrom(text, 1)

R_137 == <<"1", ".", "3", "7", ":", "1">>
R_133 == <<"1", ".", "3", "3", ":", "1">>
R_178 == <<"1", ".", "7", "8", ":", "1">>

AliasEntry(r) == [ratio |-> r, raw |-> r, note |-> Null]

\* Lines 328-334: the entries a segment without a numeric match adds.
AliasEntries(p) ==
  LET lowered == ToLowerCase(p)
  IN  IF IsAcademy(lowered) THEN <<AliasEntry(R_137)>>
      ELSE IF IsFullScreen(lowered) THEN <<AliasEntry(R_133)>>
      ELSE IF IsHdtv(lowered) THEN <<AliasEntry(R_178)>>
      ELSE <<>>

\* Lines 303-335, the body of the loop: the entries of one segment.
PartEntries(p) ==
  LET m == RatioMatch(p)
  IN  IF m.found THEN NumericEntries(p, m) ELSE AliasEntries(p)

RECURSIVE EntriesOfParts(_, _)
EntriesOfParts(parts, n) ==
  IF n > Len(parts) THEN <<>>
  ELSE PartEntries(parts[n]) \o EntriesOfParts(parts, n + 1)

\* Lines 244-338.
parseRatiosFromBlock(blockHtml) ==
  IF blockHtml = Null \/ blockHtml = <<>> THEN <<>>
  ELSE EntriesOfParts(SplitParts(CleanedText(blockHtml)), 1)

(***************************************************************************)
(* ratioToNumber, lines 352-359                                            *)
(***************************************************************************)
\* The result null of ratioToNumber: no quotient has the denominator 0.
NoNumber == Quotient([d |-> <<>>, e |-> 0], [d |-> <<>>, e |-> 0])

\* String(ratio): null becomes the text "null".
ToStringJS(ratio) == IF ratio = Null THEN <<"n", "u", "l", "l">> ELSE ratio

\* Lines 352-359.
ratioToNumber(ratio) ==
  LET OfClass(m, class) ==
        IF class["num"] = "infinite" \/ class["den"] # "finite" THEN NoNumber
        ELSE Quotient(ParseFloat(m.num), ParseFloat(m.den))
      OfMatch(m) ==
        IF ~m.found THEN NoNumber
        ELSE OfClass(m, [k \in {"num", "den"} |-> NumberClass(ParseFloat(m[k]))])
  IN  OfMatch(RatioMatch(ToStringJS(ratio)))

(***************************************************************************)
(* within, lines 364 and 412: Math.abs(val - t) <= 0.02                    *)
(***************************************************************************)
\* The target t hundredths as a fraction.
T(h) == [n |-> h, d |-> 100]

Abs(x) == IF x < 0 THEN -x ELSE x

\* The number of the literal t: the double nearest to n / 100, which the
\* literal writes in decimal, or the quotient of the integers n and d
\* (16 / 9 and 4 / 3).
TargetNumber(t) == Over(Whole(<<t.n>>), Whole(<<t.d>>))

\* The sign of |val - t| - 0.02 in exact arithmetic.
ToleranceGap(val, t) ==
  50 * Abs(Numerator(val) * t.d - t.n * Denominator(val))
    - Denominator(val) * t.d

\* |val - t| is 0.02 in exact arithmetic.
AtTolerance(val, t) == ToleranceGap(val, t) = 0

\* Lines 364 and 412, with d = 0.02: Math.abs(val - t) <= d on doubles.
\* For P and Q of at most five digits the exact difference |P/Q - t| is
\* 0.02 or at least 1 / (5000 Q), more than 2^-29, away from it; the
\* roundings of num, den, val, t, the difference and 0.02 move the two
\* sides by less than 2^-34 (val is at most 10^5).  So the comparison is
\* that of exact arithmetic except at a difference of exactly 0.02, where
\* the doubles decide.
within(val, t) ==
  IF SmallFraction(val) /\ ~AtTolerance(val, t)
  THEN ToleranceGap(val, t) < 0
  ELSE LET Leq(side) == DLeq(side[1], side[2])
       IN  Leq([k \in 1..2 |->
                  ValueOf(<<AbsMinus(DoubleOf(val), TargetNumber(t)),
                            Over(Whole(<<2>>), Whole(<<100>>))>>[k])])

\* within(t1) || within(t2) || ...
withinAny(val, targets) == \E k \in 1..Len(targets) : within(val, targets[k])

(***************************************************************************)
(* mapRatioToType, lines 361-407                                           *)
(***************************************************************************)

\* The tests of lines 367-404, in the order of the source.

TypeTable ==
  <<
    [targets |-> <<T(400)>>,
     short |->
       <<"P", "o", "l", "y", "v", "i", "s", "i", "o", "n">>,
     long |->
       <<"P", "o", "l", "y", "v", "i", "s", "i", "o", "n">>],
    [targets |-> <<T(276)>>,
     short |->
       <<"U", "l", "t", "r", "a", " ", "P", "a", "n", "a", "v", "i", "s", "i",
         "o", "n", " ", "7", "0">>,
     long |->
       <<"U", "l", "t", "r", "a", " ", "P", "a", "n", "a", "v", "i", "s", "i",
         "o", "n", " ", "7", "0", ",", " ", "M", "G", "M", " ", "C", "a", "m",
         "e", "r", "a", " ", "6", "5">>],
    [targets |-> <<T(259)>>,
     short |->
       <<"C", "i", "n", "e", "r", "a", "m", "a">>,
     long |->
       <<"C", "i", "n", "e", "r", "a", "m", "a">>],
    [targets |-> <<T(240), T(239), T(235)>>,
     short |->
       <<"S", "c", "o", "p", "e">>,
     long |->
       <<"A", "n", "a", "m", "o", "r", "p", "h", "i", "c", " ", "w", "i", "d",
         "e", "s", "c", "r", "e", "e", "n", ",", " ", "S", "c", "o", "p",
         "e">>],
    [targets |-> <<T(220)>>,
     short |->
       <<"T", "o", "d", "d", "-", "A", "O">>,
     long |->
       <<"T", "o", "d", "d", "-", "A", "O", ",", " ", "S", "u", "p", "e", "r",
         " ", "P", "a", "n", "a", "v", "i", "s", "i", "o", "n", " ", "7",
         "0">>],
    [targets |-> <<T(211)>>,
     short |->
       <<"I", "M", "A", "X", " ", "2", ".", "1", "1", ":", "1">>,
     long |->
       <<"I", "M", "A", "X", " ", "2", ".", "1", "1", ":", "1">>],
    [targets |-> <<T(200)>>,
     short |->
       <<"U", "n", "i", "v", "i", "s", "i", "u", "m">>,
     long |->
       <<"U", "n", "i", "v", "i", "s", "i", "u", "m", ",", " ", "1", "8", ":",
         "9">>],
    [targets |-> <<T(190)>>,
     short |->
       <<"D", "i", "g", "i", "t", "a", "l", " ", "I", "M", "A", "X">>,
     long |->
       <<"D", "i", "g", "i", "t", "a", "l", " ", "I", "M", "A", "X">>],
    [targets |-> <<T(185)>>,
     short |->
       <<"W", "i", "d", "e", "s", "c", "r", "e", "e", "n">>,
     long |->
       <<"W", "i", "d", "e", "s", "c", "r", "e", "e", "n", " ", "(", "f", "l",
         "a", "t", ")", ",", " ", "S", "t", "a", "n", "d", "a", "r", "d", " ",
         "A", "m", "e", "r", "i", "c", "a", "n", " ", "W", "i", "d", "e", "s",
         "c", "r", "e", "e", "n">>],
    [targets |-> <<T(178), [n |-> 16, d |-> 9]>>,
     short |->
       <<"1", "6", ":", "9">>,
     long |->
       <<"1", "6", ":", "9", ",", " ", "H", "D", "T", "V", ",", " ", "W", "i",
         "d", "e", "s", "c", "r", "e", "e", "n", " ", "T", "V">>],
    [targets |-> <<T(166)>>,
     short |->
       <<"E", "u", "r", "o", "p", "e", "a", "n", " ", "W", "i", "d", "e", "s",
         "c", "r", "e", "e", "n">>,
     long |->
       <<"5", ":", "3", ",", " ", "E", "u", "r", "o", "p", "e", "a", "n", " ",
         "W", "i", "d", "e", "s", "c", "r", "e", "e", "n">>],
    [targets |-> <<T(143), T(144)>>,
     short |->
       <<"I", "M", "A", "X", " ", "7", "0", "m", "m">>,
     long |->
       <<"I", "M", "A", "X", " ", "(", "7", "0", "m", "m", ")", ",", " ", "T",
         "r", "u", "e", " ", "I", "M", "A", "X">>],
    [targets |-> <<T(137)>>,
     short |->
       <<"A", "c", "a", "d", "e", "m", "y", " ", "R", "a", "t", "i", "o">>,
     long |->
       <<"A", "c", "a", "d", "e", "m", "y", " ", "R", "a", "t", "i", "o", ",",
         " ", "A", "c", "a", "d", "e", "m", "y", " ", "S", "t", "a", "n", "d",
         "a", "r", "d">>],
    [targets |-> <<T(133), [n |-> 4, d |-> 3]>>,
     short |->
       <<"4", ":", "3">>,
     long |->
       <<"4", ":", "3", ",", " ", "F", "u", "l", "l", " ", "s", "c", "r", "e",
         "e", "n", ",", " ", "S", "t", "a", "n", "d", "a", "r", "d", " ", "r",
         "a", "t", "i", "o">>],
    [targets |-> <<T(119)>>,
     short |->
       <<"S", "i", "l", "e", "n", "t", " ", "f", "i", "l", "m">>,
     long |->
       <<"S", "i", "l", "e", "n", "t", " ", "f", "i", "l", "m">>]
  >>

NoType == [short |-> Null, long |-> Null]

\* The first row of the table, from row n on, that val is within; 0 if none.
FirstRowWithin(val, table, n) ==
  LET First(hit) ==
        IF \A k \in n..Len(table) : ~hit[k] THEN 0
        ELSE CHOOSE k \in n..Len(table) :
               hit[k] /\ \A j \in n..(k - 1) : ~hit[j]
  IN  First([k \in n..Len(table) |-> withinAny(val, table[k].targets)])

\* A classifier that names the short form only.
mapRatioToTypeShortOnly(ratio) ==
  LET OfRow(k) ==
        IF k = 0 THEN NoType
        ELSE [short |-> TypeTable[k].short, long |-> Null]
      OfNumber(val) ==
        IF val = NoNumber THEN NoType
        ELSE OfRow(FirstRowWithin(val, TypeTable, 1))
  IN  OfNumber(ratioToNumber(ratio))

\* Lines 361-407.
mapRatioToType(ratio) ==
  LET OfRow(k) ==
        IF k = 0 THEN NoType
        ELSE [short |-> TypeTable[k].short, long |-> TypeTable[k].long]
      OfNumber(val) ==
        IF val = NoNumber THEN NoType
        ELSE OfRow(FirstRowWithin(val, TypeTable, 1))
  IN  OfNumber(ratioToNumber(ratio))

(***************************************************************************)
(* scoreForPrimary, lines 409-430                                          *)
(***************************************************************************)
\* The tests of lines 414-428, in the order of the source.

ScoreTable ==
  <<
    [targets |-> <<T(240), T(239), T(235)>>, score |-> 100],
    [targets |-> <<T(185)>>, score |-> 95],
    [targets |-> <<T(220)>>, score |-> 90],
    [targets |-> <<T(190)>>, score |-> 85],
    [targets |-> <<T(211)>>, score |-> 83],
    [targets |-> <<T(178)>>, score |-> 80],
    [targets |-> <<T(166)>>, score |-> 70],
    [targets |-> <<T(200)>>, score |-> 60],
    [targets |-> <<T(143), T(144)>>, score |-> 50],
    [targets |-> <<T(276)>>, score |-> 45],
    [targets |-> <<T(259)>>, score |-> 43],
    [targets |-> <<T(137)>>, score |-> 40],
    [targets |-> <<T(133)>>, score |-> 35],
    [targets |-> <<T(119)>>, score |-> 30],
    [targets |-> <<T(400)>>, score |-> 25]
  >>

\* Lines 409-430.
scoreForPrimary(ratio) ==
  LET OfRow(k) == IF k = 0 THEN 10 ELSE ScoreTable[k].score
      OfNumber(val) ==
        IF val = NoNumber THEN 0
        ELSE OfRow(FirstRowWithin(val, ScoreTable, 1))
  IN  OfNumber(ratioToNumber(ratio))

(***************************************************************************)
(* choosePrimaryRatio, lines 432-445                                       *)
(***************************************************************************)
\* The loop with the comparison >= in the place of >.
RECURSIVE ChooseLoopLast(_, _, _, _)
ChooseLoopLast(ratios, i, best, bestScore) ==
  LET Step(r, s) ==
        IF s >= bestScore THEN ChooseLoopLast(ratios, i + 1, r, s)
        ELSE ChooseLoopLast(ratios, i + 1, best, bestScore)
  IN  IF i > Len(ratios) THEN best
      ELSE Step(ratios[i], scoreForPrimary(ratios[i]))

\* Lines 436-443: the loop from index i on, with the best so far.
RECURSIVE ChooseLoop(_, _, _, _)
ChooseLoop(ratios, i, best, bestScore) ==
  LET Step(r, s) ==
        IF s > bestScore THEN ChooseLoop(ratios, i + 1, r, s)
        ELSE ChooseLoop(ratios, i + 1, best, bestScore)
  IN  IF i > Len(ratios) THEN best
      ELSE Step(ratios[i], scoreForPrimary(ratios[i]))

\* Lines 432-445.
choosePrimaryRatio(ratios) ==
  IF ratios = Null \/ Len(ratios) = 0 THEN Null
  ELSE ChooseLoop(ratios, 2, ratios[1], scoreForPrimary(ratios[1]))

(***************************************************************************)
(* uniqueRatios, lines 340-350                                             *)
(***************************************************************************)
\* The loop that keeps the last entry of a ratio in the place of the first.
RECURSIVE UniqLoopKeepLast(_, _, _, _)
UniqLoopKeepLast(entries, i, seen, uniq) ==
  IF i > Len(entries) THEN uniq
  ELSE LET e == entries[i]
           IsOther(u) == u.ratio # e.ratio
       IN  IF e.ratio = Null \/ e.ratio = <<>>
           THEN UniqLoopKeepLast(entries, i + 1, seen, uniq)
           ELSE UniqLoopKeepLast(entries, i + 1, seen,
                                 Append(SelectSeq(uniq, IsOther), e))

\* The loop that puts a kept entry before the earlier ones.
RECURSIVE UniqLoopPrepend(_, _, _, _)
UniqLoopPrepend(entries, i, seen, uniq) ==
  IF i > Len(entries) THEN uniq
  ELSE LET e == entries[i]
       IN  IF e.ratio = Null \/ e.ratio = <<>> \/ e.ratio \in seen
           THEN UniqLoopPrepend(entries, i + 1, seen, uniq)
           ELSE UniqLoopPrepend(entries, i + 1, seen \cup {e.ratio}, <<e>> \o uniq)

\* Lines 343-348: the loop from index i on.  An entry without ratio (null,
\* undefined or the empty text, and so is a null element) is skipped.
RECURSIVE UniqLoop(_, _, _, _)
UniqLoop(entries, i, seen, uniq) ==
  IF i > Len(entries) THEN uniq
  ELSE LET e == entries[i]
       IN  IF e.ratio = Null \/ e.ratio = <<>>
           THEN UniqLoop(entries, i + 1, seen, uniq)
           ELSE IF e.ratio \in seen
           THEN UniqLoop(entries, i + 1, seen, uniq)
           ELSE UniqLoop(entries, i + 1, seen \cup {e.ratio}, Append(uniq, e))

\* Lines 340-350.
uniqueRatios(entries) == UniqLoop(entries, 1, {}, <<>>)

(***************************************************************************)
(* findAspectRatioBlocks, lines 208-241                                    *)
(***************************************************************************)
\* The patterns of lines 219-224, in the order of the source:
\*   labelled: <name[\s\S]*?>[\s\S]*?Aspect\s*ratio[\s\S]*?<\/name>
\*   tagged:   <div[^>]*?data-testid=["']title-techspecs-aspectratio["']
\*             [\s\S]*?<\/div>
BlockPatterns ==
  << [kind |-> "labelled", name |-> <<"t", "r">>],
     [kind |-> "labelled", name |-> <<"l", "i">>],
     [kind |-> "tagged", name |-> <<"d", "i", "v">>],
     [kind |-> "labelled", name |-> <<"s", "e", "c", "t", "i", "o", "n">>] >>

\* The last position of the match of the pattern that starts at i, or 0.
\* Every quantifier but \s* is lazy, and what follows a lazy quantifier
\* matches after a later choice only if it matches after the first one, so
\* the match takes the first ">", the first label after it and the first
\* closing tag after the label (the first attribute and the first closing
\* tag after it for the tagged pattern).
BlockEndAt(text, i, pat) ==
  IF ~MatchAt(text, i, <<"<">> \o pat.name) THEN 0
  ELSE
    LET from == i + 1 + Len(pat.name)
        close == <<"<", "/">> \o pat.name \o <<">">>
        \* data-testid=["']title-techspecs-aspectratio["'], 41 characters,
        \* matches at position j
        TestIdAt(j) ==
          LET attr == <<"d", "a", "t", "a", "-", "t", "e", "s", "t", "i", "d",
                        "=">>
              val == <<"t", "i", "t", "l", "e", "-", "t", "e", "c", "h", "s",
                       "p", "e", "c", "s", "-", "a", "s", "p", "e", "c", "t",
                       "r", "a", "t", "i", "o">>
              q1 == j + Len(attr)
              q2 == q1 + 1 + Len(val)
          IN  /\ MatchAt(text, j, attr)
              /\ q2 <= Len(text)
              /\ text[q1] \in {"\"", "'"}
              /\ MatchAt(text, q1 + 1, val)
              /\ text[q2] \in {"\"", "'"}
        \* the first label after the ">" at gt
        Label(gt) ==
          IF gt = 0 \/ \A j \in (gt + 1)..Len(text) : LabelEndAt(text, j) = 0
          THEN 0
          ELSE CHOOSE j \in (gt + 1)..Len(text) :
                 /\ LabelEndAt(text, j) > 0
                 /\ \A k \in (gt + 1)..(j - 1) : LabelEndAt(text, k) = 0
        \* the first attribute inside the opening tag
        TestId(limit) ==
          IF \A j \in from..limit : ~TestIdAt(j) THEN 0
          ELSE CHOOSE j \in from..limit :
                 TestIdAt(j) /\ \A k \in from..(j - 1) : ~TestIdAt(k)
        PastLabel(label) == IF label = 0 THEN 0 ELSE LabelEndAt(text, label)
        PastTestId(testid) == IF testid = 0 THEN 0 ELSE testid + 41
        Mid(gt) ==
          IF pat.kind = "labelled"
          THEN PastLabel(Label(gt))
          ELSE PastTestId(TestId(IF gt = 0 THEN Len(text) ELSE gt - 1))
        EndOf(c) == IF c = 0 THEN 0 ELSE c + Len(close) - 1
        Closed(mid) ==
          EndOf(IF mid = 0 THEN 0 ELSE IndexOfWord(text, close, mid))
    IN  Closed(Mid(IndexOfChar(text, ">", from)))

\* cleaned.match(re) with the g flag, from position i on: the matches from
\* left to right, each searched after the end of the one before.
RECURSIVE AllMatches(_, _, _)
AllMatches(text, i, pat) ==
  IF \A j \in i..Len(text) : BlockEndAt(text, j, pat) = 0 THEN <<>>
  ELSE LET Cut(s, t) == <<SubSeq(text, s, t)>> \o AllMatches(text, t + 1, pat)
           From(s) == Cut(s, BlockEndAt(text, s, pat))
       IN  From(CHOOSE j \in i..Len(text) :
                  /\ BlockEndAt(text, j, pat) > 0
                  /\ \A k \in i..(j - 1) : BlockEndAt(text, k, pat) = 0)

\* Lines 225-228: the matches of the patterns n, n+1, ... in this order.
\* A variant that stops at the first pattern that matches.
RECURSIVE StructuralBlocksFirstOnly(_, _)
StructuralBlocksFirstOnly(text, n) ==
  IF n > Len(BlockPatterns) THEN <<>>
  ELSE IF AllMatches(text, 1, BlockPatterns[n]) # <<>>
  THEN AllMatches(text, 1, BlockPatterns[n])
  ELSE StructuralBlocksFirstOnly(text, n + 1)

RECURSIVE StructuralBlocks(_, _)
StructuralBlocks(text, n) ==
  IF n > Len(BlockPatterns) THEN <<>>
  ELSE AllMatches(text, 1, BlockPatterns[n]) \o StructuralBlocks(text, n + 1)

\* Lines 231-238: the window around the first "aspect ratio" of the
\* lower-cased text; idx counts from 0, positions here from 1.  The index
\* is one in the lower-cased text and cuts the text as it was.
FallbackBlocks(text) ==
  LET Slice(start, stop) == <<SubSeq(text, start + 1, stop)>>
      Window(idx) ==
        IF idx = -1 THEN <<>>
        ELSE Slice(IF idx - 200 > 0 THEN idx - 200 ELSE 0,
                   IF idx + 800 < Len(text) THEN idx + 800 ELSE Len(text))
  IN  Window(IndexOfWord(ToLowerCase(text),
                         W_aspect \o <<" ">> \o W_ratio, 1) - 1)

findAspectRatioBlocks(html) ==
  IF html = <<>> \/ html = Null THEN <<>>
  ELSE LET \* lines 231-238 when lines 225-228 found nothing
           OrWindow(text, found) ==
             IF found = <<>> THEN FallbackBlocks(text) ELSE found
           Blocks(text) == OrWindow(text, StructuralBlocks(text, 1))
           \* lines 210-212: without its script and style elements
       IN  Blocks(ReplaceTags(ReplaceTags(html, TagPatterns[1], 1),
                              TagPatterns[2], 1))

(***************************************************************************)
(* parseAllAspectRatiosFromImdb, lines 458-463                             *)
(***************************************************************************)
\* blocks.flatMap((b) => parseRatiosFromBlock(b)), from block n on.
RECURSIVE FlatMapEntries(_, _)
FlatMapEntries(bs, n) ==
  IF n > Len(bs) THEN <<>>
  ELSE parseRatiosFromBlock(bs[n]) \o FlatMapEntries(bs, n + 1)

parseAllAspectRatiosFromImdb(html) ==
  LET Ratios(found) == [n \in 1..Len(found) |-> found[n].ratio]
  IN  Ratios(uniqueRatios(FlatMapEntries(findAspectRatioBlocks(html), 1)))

(***************************************************************************)
(* normalizeAspectRatioText, lines 191-205                                 *)
(***************************************************************************)
\* A normalisation that keeps the number before the colon only.
normalizeToNumber(text) ==
  IF text = Null \/ text = <<>> THEN Null
  ELSE LET c == IndexOfChar(text, ":", 1)
       IN  IF c = 0 THEN text ELSE SubSeq(text, 1, c - 1)

normalizeAspectRatioText(text) ==
  LET \* replace(/\s*:\s*/g, ":") from position i on
      RECURSIVE TightenColons(_, _)
      TightenColons(v, i) ==
        IF i > Len(v) THEN <<>>
        ELSE LET j == SkipSpaces(v, i)
             IN  IF j <= Len(v) /\ v[j] = ":"
                 THEN <<":">> \o TightenColons(v, SkipSpaces(v, j + 1))
                 ELSE <<v[i]>> \o TightenColons(v, i + 1)
      \* the words of the pattern of line 200, in lower case
      trailing ==
        <<
          <<"c", "a", "m", "e", "r", "a">>,
          <<"r", "u", "n", "t", "i", "m", "e">>,
          <<"s", "o", "u", "n", "d", " ", "m", "i", "x">>,
          <<"c", "o", "l", "o", "r">>,
          <<"n", "e", "g", "a", "t", "i", "v", "e", " ", "f", "o", "r",
            "m", "a", "t">>,
          <<"c", "i", "n", "e", "m", "a", "t", "o", "g", "r", "a", "p",
            "h", "i", "c", " ", "p", "r", "o", "c", "e", "s", "s">>,
          <<"p", "r", "i", "n", "t", "e", "d", " ", "f", "i", "l", "m",
            " ", "f", "o", "r", "m", "a", "t">>
        >>
      \* \s*(Camera|Runtime|...) matches at position i
      TrailingAt(v, i) ==
        \E n \in 1..Len(trailing) : MatchAt(v, SkipSpaces(v, i), trailing[n])
      \* replace(/\s*(Camera|...).*$/i, ""): after line 196 the text holds no
      \* line terminator, so .*$ runs to its end
      CutTrailing(v) ==
        IF \A i \in 1..Len(v) : ~TrailingAt(v, i) THEN v
        ELSE SubSeq(v, 1, (CHOOSE i \in 1..Len(v) :
                             /\ TrailingAt(v, i)
                             /\ \A k \in 1..(i - 1) : ~TrailingAt(v, k)) - 1)
  IN  IF text = Null \/ text = <<>> THEN Null
      ELSE Trim(CutTrailing(CollapseSpaces(TightenColons(Trim(text), 1), 1)))

(***************************************************************************)
(* fetchImdbAspectRatio, lines 477 and 499-534: the record built from the  *)
(* text of the response                                                    *)
(***************************************************************************)
\* The error thrown when the page holds no ratio (line 501).
NotFound == [thrown |-> "Aspect ratio not found on IMDb"]

\* The display parts without the names.
RECURSIVE DisplayBare(_, _)
DisplayBare(found, n) ==
  IF n > Len(found) THEN <<>>
  ELSE IF n = Len(found) THEN found[n]
  ELSE found[n] \o <<" ", "U+2022", " ">> \o DisplayBare(found, n + 1)

\* Lines 511-518: the display parts from the n-th ratio on, joined by the
\* bullet between two spaces.
RECURSIVE DisplayFrom(_, _)
DisplayFrom(found, n) ==
  LET \* lines 512-517, the callback of found.map: a ratio with its long
      \* type name in parentheses when it has one, the bare ratio otherwise
      DisplayPart(r, type) ==
        IF type.long # Null /\ type.long # <<>>
        THEN r \o <<" ", "(">> \o type.long \o <<")">>
        ELSE r
  IN  IF n > Len(found) THEN <<>>
      ELSE DisplayPart(found[n], mapRatioToType(found[n]))
           \o (IF n = Len(found) THEN <<>>
               ELSE <<" ", "U+2022", " ">> \o DisplayFrom(found, n + 1))

\* The record goes through even when the list is empty.
NeverThrow(found, built) == built

\* Lines 500-502: an empty list throws, any other lets the record through.
ThrowIfEmpty(found, built) == IF found = <<>> THEN NotFound ELSE built

\* The type of the first listed ratio in the place of the primary one.
TypeOfFirst(found, aspectRatio) == mapRatioToType(found[1])

\* Line 520: the type attached to the record.
TypeOfPrimary(found, aspectRatio) == mapRatioToType(aspectRatio)

\* What fetchImdbAspectRatio(imdbId) returns, or throws, once the response
\* text is there.
RecordOfPage(imdbId, page) ==
  LET \* lines 500-502 and 525-533
      Built(found, aspectRatio, type) ==
        ThrowIfEmpty(found,
           [aspectRatio |-> aspectRatio,
            displayText |-> DisplayFrom(found, 1),
            allAspectRatios |-> found,
            mappedTypeShort |-> type.short,
            mappedTypeLong |-> type.long,
            source |-> "imdb",
            sourceUrl |->
              <<"h", "t", "t", "p", "s", ":", "/", "/", "w", "w", "w", ".",
                "i", "m", "d", "b", ".", "c", "o", "m", "/", "t", "i", "t",
                "l", "e", "/">>
                \o imdbId \o
              <<"/", "t", "e", "c", "h", "n", "i", "c", "a", "l", "/">>])
      \* line 520
      Typed(found, aspectRatio) ==
        Built(found, aspectRatio, TypeOfPrimary(found, aspectRatio))
      \* line 507; list[0] of an empty list is undefined
      First(found, chosen) ==
        IF chosen # Null /\ chosen # <<>> THEN chosen
        ELSE IF found = <<>> THEN Null ELSE found[1]
      \* lines 507-508
      Listed(found) ==
        Typed(found,
              normalizeAspectRatioText(First(found, choosePrimaryRatio(found))))
      \* line 499
  IN  Listed(parseAllAspectRatiosFromImdb(page))

(***************************************************************************)
(* Inputs: documents assembled from fragments                              *)
(*                                                                         *)
(* A document is a sequence of fragment names; the block handed to         *)
(* parseRatiosFromBlock, and the page handed to findAspectRatioBlocks, is  *)
(* the texts of its fragments joined by one space.                         *)
(***************************************************************************)
FragmentText ==
  ("row" :> <<"<", "t", "r", ">", "<", "t", "d", ">", "A", "s", "p", "e",
     "c", "t", " ", "r", "a", "t", "i", "o", "<", "/", "t", "d", ">", "<",
     "t", "d", ">", "2", ".", "3", "9", " ", ":", " ", "1", "<", "/", "t",
     "d", ">", "<", "/", "t", "r", ">">>) @@
  ("runtime" :> <<"<", "t", "r", ">", "<", "t", "d", ">", "R", "u", "n", "t",
     "i", "m", "e", "<", "/", "t", "d", ">", "<", "t", "d", ">", "2", "h",
     "<", "/", "t", "d", ">", "<", "/", "t", "r", ">">>) @@
  ("item" :> <<"<", "l", "i", " ", "c", "l", "a", "s", "s", "=", "\"", "s",
     "p", "e", "c", "\"", ">", "A", "s", "p", "e", "c", "t", " ", "R", "a",
     "t", "i", "o", " ", "1", ".", "8", "5", ":", "1", " ", "(", "t", "h",
     "e", "a", "t", "r", "i", "c", "a", "l", ")", "<", "/", "l", "i",
     ">">>) @@
  ("tagged" :> <<"<", "d", "i", "v", " ", "d", "a", "t", "a", "-", "t", "e",
     "s", "t", "i", "d", "=", "\"", "t", "i", "t", "l", "e", "-", "t", "e",
     "c", "h", "s", "p", "e", "c", "s", "-", "a", "s", "p", "e", "c", "t",
     "r", "a", "t", "i", "o", "\"", ">", "1", "6", ":", "9", "<", "/", "d",
     "i", "v", ">">>) @@
  ("section" :> <<"<", "s", "e", "c", "t", "i", "o", "n", ">">>) @@
  ("endsection" :> <<"<", "/", "s", "e", "c", "t", "i", "o", "n", ">">>) @@
  ("script" :> <<"<", "s", "c", "r", "i", "p", "t", ">", "v", "a", "r", " ",
     "t", " ", "=", " ", "\"", "A", "s", "p", "e", "c", "t", " ", "r", "a",
     "t", "i", "o", " ", "1", ":", "1", "\"", ";", "<", "/", "s", "c", "r",
     "i", "p", "t", ">">>) @@
  ("tight" :> <<"a", "s", "p", "e", "c", "t", "r", "a", "t", "i", "o", " ",
     "4", ":", "3">>) @@
  ("rowtwo" :> <<"<", "t", "r", ">", "<", "t", "d", ">", "A", "s", "p", "e",
     "c", "t", " ", "r", "a", "t", "i", "o", "<", "/", "t", "d", ">", "<",
     "t", "d", ">", "1", ".", "3", "3", ":", "1", " ", "U+2022", " ", "2",
     ".", "3", "9", ":", "1", " ", "(", "7", "0", "m", "m", ")", "<", "/",
     "t", "d", ">", "<", "/", "t", "r", ">">>) @@
  ("rowbare" :> <<"<", "t", "r", ">", "<", "t", "d", ">", "A", "s", "p", "e",
     "c", "t", " ", "r", "a", "t", "i", "o", "<", "/", "t", "d", ">", "<",
     "t", "d", ">", "3", " ", ":", " ", "1", "<", "/", "t", "d", ">", "<",
     "/", "t", "r", ">">>) @@
  ("pad" :> [i \in 1..450 |-> "x"]) @@
  ("n143" :> <<"1", ".", "4", "3">>) @@
  ("n178" :> <<"1", ".", "7", "8">>) @@
  ("br" :> <<"<", "b", "r", "/", ">">>) @@
  ("label" :> <<"A", "s", "p", "e", "c", "t", " ", "r", "a", "t", "i", "o">>) @@
  ("r239s" :> <<"2", ".", "3", "9", " ", ":", " ", "1">>) @@
  ("r239" :> <<"2", ".", "3", "9", ":", "1">>) @@
  ("r169" :> <<"1", "6", ":", "9">>) @@
  ("z01" :> <<"0", ":", "1">>) @@
  ("z50" :> <<"5", ":", "0">>) @@
  ("huge" :> <<"1", "0", "0", "0", "0", "0", "0", "0", "0", "0", "0", "0", "0", "0", "0", "0", "0", "0", "0", "0", "0", "0", "0", ":", "1">>) @@
  ("academy" :> <<"A", "c", "a", "d", "e", "m", "y">>) @@
  ("fullscreen" :> <<"f", "u", "l", "l", " ", "s", "c", "r", "e", "e", "n">>) @@
  ("hdtv" :> <<"H", "D", "T", "V">>) @@
  ("imax" :> <<"I", "M", "A", "X">>) @@
  ("semicolon" :> <<";">>) @@
  ("bullet" :> <<"U+2022">>) @@
  ("open" :> <<"(">>) @@
  ("close" :> <<")">>) @@
  ("camera" :> <<"C", "a", "m", "e", "r", "a">>) @@
  ("filmlength" :> <<"F", "i", "l", "m", " ", "l", "e", "n", "g", "t", "h">>) @@
  ("cameraman" :> <<"C", "a", "m", "e", "r", "a", "m", "a", "n">>)

\* The texts of the fragments of doc from the n-th on, joined by one space.
RECURSIVE JoinFrom(_, _)
JoinFrom(doc, n) ==
  IF n > Len(doc) THEN <<>>
  ELSE IF n = Len(doc) THEN FragmentText[doc[n]]
  ELSE FragmentText[doc[n]] \o <<" ">> \o JoinFrom(doc, n + 1)

BlockOf(doc) == JoinFrom(doc, 1)

\* The sequences over the set S of length at most n.
RECURSIVE SeqsUpTo(_, _)
SeqsUpTo(S, n) ==
  IF n = 0 THEN {<<>>}
  ELSE LET shorter == SeqsUpTo(S, n - 1)
       IN  shorter \cup {Append(q, x) : q \in shorter, x \in S}

\* Bounds of the inputs.
MaxFrags == 3
MaxAliasFrags == 3
MaxSplitFrags == 4
MaxClipFrags == 4
MaxHundredths == 420
MaxRatios == 3
MaxEntries == 4
MaxUnits == 3
MaxPageFrags == 3

\* The fragments of the token documents, of the alias documents, of the
\* segment documents and of the label documents.
TokenFrags ==
  {"r239s", "r239", "r169", "z01", "z50", "huge", "imax", "br", "semicolon"}
AliasFrags ==
  {"academy", "fullscreen", "hdtv", "n178", "n143", "imax", "r169", "z01",
   "semicolon"}
SplitFrags == {"open", "close", "semicolon", "bullet", "r239", "r169"}
ClipFrags == {"label", "r239", "r169", "camera", "filmlength", "cameraman"}

\* The fragments of the pages handed to findAspectRatioBlocks: a table row
\* with the label, a list item with the label, the tagged
\* container, the two tags of a section, the bare label, the label without
\* its space, a script with the label in it, and filler of 450 characters.
PageFrags ==
  {"row", "item", "tagged", "section", "endsection", "label", "tight",
   "script", "pad"}

\* The fragments of the pages handed to fetchImdbAspectRatio: rows with one
\* ratio, with two ratios and with a ratio that has no format name, a list
\* item, the tagged container, the bare label and a zero ratio.
ImdbFrags == {"row", "rowtwo", "rowbare", "item", "tagged", "label", "z01"}

\* The ratio h / 100 in canonical form, as the parser writes it:
\* (h / 100).toFixed(2) and ":1".
FixedText(h) == PointText(NatToText(h))

CanonicalRatio(h) == FixedText(h) \o <<":", "1">>

\* Inputs of the classifier that are no canonical ratio.
OtherRatios ==
  { Null, <<"a", "b", "c">>, <<"1", "6", ":", "9">>, <<"4", ":", "3">>,
    <<"1", ":", "0">>, <<"2", ".", "3", "9", " ", ":", " ", "1">>,
    <<"1", ".", "3", "5", "2", ":", "1">> }

\* The ratios the lists handed to choosePrimaryRatio are made of.
PrimaryPool ==
  { CanonicalRatio(239), CanonicalRatio(235), CanonicalRatio(133),
    CanonicalRatio(185), CanonicalRatio(999), <<"a", "b", "c">> }

\* The entries the lists handed to uniqueRatios are made of: two entries of
\* the ratio 2.39:1 that differ in raw and note, entries of two other
\* ratios, and an entry without ratio.
EntryPool ==
  { [ratio |-> CanonicalRatio(239), raw |-> <<"2", ".", "3", "9", ":", "1">>,
     note |-> Null],
    [ratio |-> CanonicalRatio(239), raw |-> <<"2", "3", "9", ":", "1", "0", "0">>,
     note |-> <<"7", "0", "m", "m">>],
    [ratio |-> CanonicalRatio(185), raw |-> <<"1", ".", "8", "5", ":", "1">>,
     note |-> Null],
    [ratio |-> R_137, raw |-> R_137, note |-> Null],
    [ratio |-> <<>>, raw |-> <<"0", ":", "0">>, note |-> Null] }

(***************************************************************************)
(* The worker, lines 98-106 and 557-673: constants and inputs              *)
(***************************************************************************)
\* The clock of the model counts ticks of 500 ms: the 30 days of
\* CACHE_TTL_MS counted in milliseconds are beyond the integers of the model
\* checker.  Both constants are in ticks.
CACHE_TTL_MS == 30 * 24 * 60 * 60 * (1000 \div 500)
MIN_REQUEST_INTERVAL_MS == 1000 \div 500

\* The requests sent to the worker.
Requests == {1, 2}

\* Bound: the steps of the clock.
MaxTicks == 2

\* The identifiers asked for.
ImdbIds == {<<"t", "t", "1">>, <<"t", "t", "2">>}

\* What fetchImdbAspectRatio makes, for each identifier, of the pages IMDb
\* answers with: a row with one ratio, a row with two, a label followed by a
\* zero ratio, and a page without label.
PageRecords ==
  { [imdbId |-> i, page |-> d, data |-> RecordOfPage(i, BlockOf(d))] :
      i \in ImdbIds,
      d \in {<<"row">>, <<"rowtwo">>, <<"label", "z01">>, <<"z01">>} }


\* A request that has not been sent.  at is the await the handler stands at,
\* now, cached and record are its locals, wake the end of its rate-limit
\* delay, page the fragments of the text of its response, order the place
\* of its call of chrome.storage.local.set among these calls.
IdleRequest ==
  [at |-> "idle", imdbId |-> Null, tabId |-> 0, incognito |-> FALSE,
   filmTitle |-> Null, now |-> 0, cached |-> Null, wake |-> 0, page |-> Null,
   record |-> Null, order |-> 0]

\* A test that lets a record live one tick longer.
IsFreshInclusive(cached, now) ==
  /\ cached # Null
  /\ cached.fetchedAt # 0
  /\ now - cached.fetchedAt <= CACHE_TTL_MS

\* Lines 581-585: cached && cached.fetchedAt &&
\* now - cached.fetchedAt < CACHE_TTL_MS
IsFresh(cached, now) ==
  /\ cached # Null
  /\ cached.fetchedAt # 0
  /\ now - cached.fetchedAt < CACHE_TTL_MS

\* The tabs that send messages: tab 1 in a normal window, tab 2 in a
\* private one (sender.tab.id and sender.tab.incognito, lines 562-563).
Tabs == {1, 2}
IncognitoTabs == {2}

\* msg.filmTitle: the title the content script reads on the page of the film.
FilmTitleOf(imdbId) == <<"F", "i", "l", "m", " ", imdbId[3]>>

\* a || b of JavaScript for a text or null a.
OrElse(a, b) == IF a = Null \/ a = <<>> THEN b ELSE a

\* Lines 109-119: STATUS at the start of the worker.  The null of lastError
\* is the empty string here and the null of lastUpdate the time 0; both are
\* falsy as null is, and no handler tells them from null.
StatusAtStart ==
  [lastImdbId |-> Null, lastStatus |-> "idle", lastAspectRatio |-> Null,
   lastFilmTitle |-> Null, lastError |-> "", lastUpdate |-> 0,
   totalFetches |-> 0, cacheHits |-> 0, imdbRequests |-> 0]

\* Lines 596-602, 633-639 and 650-656: the entry of TAB_DATA made from a
\* record.
TabEntry(imdbId, rec, title) ==
  [imdbId |-> imdbId, aspectRatio |-> rec.aspectRatio,
   displayText |-> OrElse(rec.displayText, rec.aspectRatio),
   mappedTypeShort |-> OrElse(rec.mappedTypeShort, Null),
   filmTitle |-> OrElse(title, Null)]

\* Lines 135-137: chrome.storage.session.set({ status: STATUS }).
saveStatus(st, ses) == ("status" :> st) @@ ses

\* Lines 139-145: the entries of TAB_DATA under their keys as texts, set as
\* tabData of chrome.storage.session.
saveTabData(td, ses) ==
  ("tabData" :> [k \in {NatToText(t) : t \in DOMAIN td} |->
                   td[CHOOSE t \in DOMAIN td : NatToText(t) = k]]) @@ ses

\* Lines 126-131: TAB_DATA.set(parseInt(tabId), data) for every saved entry.
RestoreTabData(saved, td) ==
  [t \in {DigitsValue(k) : k \in DOMAIN saved} \cup DOMAIN td |->
     IF \E k \in DOMAIN saved : DigitsValue(k) = t
     THEN saved[CHOOSE k \in DOMAIN saved : DigitsValue(k) = t]
     ELSE td[t]]

\* TAB_DATA.delete(tabId).
DeleteTab(td, t) == [u \in DOMAIN td \ {t} |-> td[u]]

(***************************************************************************)
(* State                                                                   *)
(***************************************************************************)
VARIABLES
  pc,       \* what has run: "parse"/"parsed", "classify"/.../"done", "choose"/"chosen"
  doc,      \* the fragments of the block
  block,    \* blockHtml, the argument of parseRatiosFromBlock
  cleaned,  \* the local cleaned of parseRatiosFromBlock (line 276)
  parts,    \* the local parts of parseRatiosFromBlock (line 282)
  out,      \* the entries parseRatiosFromBlock returns
  ratio,    \* the argument of mapRatioToType and scoreForPrimary
  typeMap,  \* the result of mapRatioToType
  score,    \* the result of scoreForPrimary
  ratios,   \* the argument of choosePrimaryRatio
  primary,  \* the result of choosePrimaryRatio
  entries,  \* the argument of uniqueRatios (line 460)
  uniq,     \* the result of uniqueRatios (line 461)
  list,     \* the result of parseAllAspectRatiosFromImdb (line 462)
  html,     \* the argument of findAspectRatioBlocks
  blocks,   \* the result of findAspectRatioBlocks
  record,   \* what fetchImdbAspectRatio returns or throws
  clock,    \* Date.now(), in ticks
  ticks,    \* the steps the clock has made
  cache,    \* chrome.storage.local: the record stored under ar:<imdbId>
  lastImdbRequestTime,
  reqs,     \* the getAspectRatio messages and their handlers
  fetchLog, \* the calls of fetch (line 483): request and time
  responses, \* the calls of sendResponse, per request
  site,     \* what fetchImdbAspectRatio makes of the pages IMDb serves
  STATUS,   \* lines 109-119
  TAB_DATA, \* line 103: the entry of each tab that has one
  session,  \* chrome.storage.session: the keys status and tabData
  restoring, \* the callback of lines 121-133 has not run yet
  result,   \* what the get of line 121 read: the session storage at the start
  closed,   \* the tabs that have been removed
  anchor,   \* content script: what findImdbLink finds on the page
  runtimeEl, \* content script: the page has a runtime element
  badge,    \* content script: the document has an element .lb-ar-badge
  pathname, \* content script: location.pathname
  pending,  \* content script: the calls of runOncePerPage that are scheduled
  urlChanges, \* content script: the changes of location.href seen so far
  interval, \* content script: the timers of setInterval, one per call
  inits,    \* content script: the calls of initWithAnchor
  State     \* content script: STATE, with initializedForPath and runtimeBadgeEl

vars ==
  <<pc, doc, block, cleaned, parts, out, ratio, typeMap, score, ratios, primary,
    entries, uniq, list, html, blocks, record, clock, ticks, cache,
    lastImdbRequestTime, reqs, fetchLog, responses, site, STATUS, TAB_DATA,
    session, restoring, result, closed, anchor, runtimeEl, badge, pathname,
    pending, urlChanges, interval, inits, State>>

parserVars == <<doc, block, cleaned, parts, out>>
classifierVars == <<ratio, typeMap, score>>
selectorVars == <<ratios, primary>>

ParserIdle ==
  doc = <<>> /\ block = <<>> /\ cleaned = <<>> /\ parts = <<>> /\ out = <<>>
ClassifierIdle == ratio = Null /\ typeMap = NoType /\ score = 0
SelectorIdle == ratios = <<>> /\ primary = Null

\* The variables of the document pipeline and of the worker.
pageVars == <<html, blocks, record>>
PageIdle == html = <<>> /\ blocks = <<>> /\ record = Null
workerVars ==
  <<clock, ticks, cache, lastImdbRequestTime, reqs, fetchLog, responses, site,
    STATUS, TAB_DATA, session, restoring, result, closed>>
WorkerIdle ==
  /\ clock = 0 /\ ticks = 0 /\ cache = <<>> /\ lastImdbRequestTime = 0
  /\ reqs = <<>> /\ fetchLog = <<>> /\ responses = <<>> /\ site = {}
  /\ STATUS = <<>> /\ TAB_DATA = <<>> /\ session = <<>>
  /\ restoring = FALSE /\ result = <<>> /\ closed = {}

\* The variables of the content script.
contentVars ==
  <<anchor, runtimeEl, badge, pathname, pending, urlChanges, interval, inits,
    State>>
ContentIdle ==
  /\ anchor = "" /\ runtimeEl = FALSE /\ badge = FALSE /\ pathname = <<>>
  /\ pending = 0 /\ urlChanges = 0 /\ interval = <<>> /\ inits = 0
  /\ State = <<>>

restVars == <<entries, uniq, list, pageVars, workerVars, contentVars>>
RestIdle ==
  /\ entries = <<>> /\ uniq = <<>> /\ list = <<>> /\ PageIdle /\ WorkerIdle
  /\ ContentIdle

\* A block made of the label and up to MaxFrags token fragments.
InitParse ==
  /\ pc = "parse"
  /\ \E body \in SeqsUpTo(TokenFrags, MaxFrags) :
       /\ doc = <<"label">> \o body
       /\ block = BlockOf(<<"label">> \o body)
  /\ cleaned = <<>> /\ parts = <<>> /\ out = <<>>
  /\ ClassifierIdle /\ SelectorIdle /\ RestIdle

\* A block made of the label and up to MaxAliasFrags fragments with format
\* words.
InitAlias ==
  /\ pc = "parse"
  /\ \E body \in SeqsUpTo(AliasFrags, MaxAliasFrags) :
       /\ doc = <<"label">> \o body
       /\ block = BlockOf(<<"label">> \o body)
  /\ cleaned = <<>> /\ parts = <<>> /\ out = <<>>
  /\ ClassifierIdle /\ SelectorIdle /\ RestIdle

\* A block made of the label and up to MaxSplitFrags fragments with
\* parentheses and separators.
InitSplit ==
  /\ pc = "parse"
  /\ \E body \in SeqsUpTo(SplitFrags, MaxSplitFrags) :
       /\ doc = <<"label">> \o body
       /\ block = BlockOf(<<"label">> \o body)
  /\ cleaned = <<>> /\ parts = <<>> /\ out = <<>>
  /\ ClassifierIdle /\ SelectorIdle /\ RestIdle

\* A block of up to MaxClipFrags fragments, the label and the next-field
\* labels among them at any place.
InitClip ==
  /\ pc = "parse"
  /\ \E d \in SeqsUpTo(ClipFrags, MaxClipFrags) :
       /\ doc = d
       /\ block = BlockOf(d)
  /\ cleaned = <<>> /\ parts = <<>> /\ out = <<>>
  /\ ClassifierIdle /\ SelectorIdle /\ RestIdle

\* A ratio handed to the classifier and to the scoring table.
InitClassify ==
  /\ pc = "classify"
  /\ ratio \in {CanonicalRatio(h) : h \in 0..MaxHundredths} \cup OtherRatios
  /\ typeMap = NoType /\ score = 0
  /\ ParserIdle /\ SelectorIdle /\ RestIdle

\* A list of up to MaxRatios ratios handed to the selector.
InitPrimary ==
  /\ pc = "choose"
  /\ ratios \in SeqsUpTo(PrimaryPool, MaxRatios)
  /\ primary = Null
  /\ ParserIdle /\ ClassifierIdle /\ RestIdle

\* A list of up to MaxEntries entries handed to uniqueRatios.
InitUnique ==
  /\ pc = "unique"
  /\ entries \in SeqsUpTo(EntryPool, MaxEntries)
  /\ uniq = <<>> /\ list = <<>>
  /\ ParserIdle /\ ClassifierIdle /\ SelectorIdle /\ PageIdle /\ WorkerIdle
  /\ ContentIdle

\* A page of up to MaxUnits fragments handed to findAspectRatioBlocks.
InitBlocks ==
  /\ pc = "blocks"
  /\ \E d \in SeqsUpTo(PageFrags, MaxUnits) :
       /\ doc = d
       /\ html = BlockOf(d)
  /\ blocks = <<>> /\ record = Null
  /\ block = <<>> /\ cleaned = <<>> /\ parts = <<>> /\ out = <<>>
  /\ entries = <<>> /\ uniq = <<>> /\ list = <<>>
  /\ ClassifierIdle /\ SelectorIdle /\ WorkerIdle /\ ContentIdle

\* The response text handed to the parsing part of fetchImdbAspectRatio: a
\* page of up to MaxPageFrags fragments.
InitImdb ==
  /\ pc = "page"
  /\ \E d \in SeqsUpTo(ImdbFrags, MaxPageFrags) :
       /\ doc = d
       /\ html = BlockOf(d)
  /\ blocks = <<>> /\ record = Null
  /\ block = <<>> /\ cleaned = <<>> /\ parts = <<>> /\ out = <<>>
  /\ entries = <<>> /\ uniq = <<>> /\ list = <<>>
  /\ ClassifierIdle /\ SelectorIdle /\ WorkerIdle /\ ContentIdle

\* The worker, for the pages of site, with the store empty or holding the
\* record an earlier run stored for the first identifier, the clock at least
\* one interval after 1970, and no request yet: every request is at first,
\* "unsent" when the content script has yet to announce it with its
\* updateStatus message, "idle" when only getAspectRatio is followed.
InitStore(first) ==
  /\ pc = "worker"
  /\ clock = MIN_REQUEST_INTERVAL_MS
  /\ ticks = 0
  /\ \E old \in BOOLEAN :
       cache = [i \in ImdbIds |->
                  IF old /\ i = <<"t", "t", "1">>
                  THEN [fetchedAt |-> MIN_REQUEST_INTERVAL_MS]
                         @@ (CHOOSE p \in site :
                               p.imdbId = i /\ p.page = <<"row">>).data
                  ELSE Null]
  /\ lastImdbRequestTime = 0
  /\ reqs = [r \in Requests |-> [IdleRequest EXCEPT !.at = first]]
  /\ fetchLog = <<>>
  /\ responses = [r \in Requests |-> <<>>]
  /\ STATUS = StatusAtStart
  /\ TAB_DATA = <<>>
  /\ closed = {}
  /\ ParserIdle /\ ClassifierIdle /\ SelectorIdle
  /\ entries = <<>> /\ uniq = <<>> /\ list = <<>> /\ PageIdle
  /\ ContentIdle

\* The worker started in a new browser session, after the callback of
\* lines 121-133 found nothing to restore.
InitWorker ==
  /\ site = PageRecords
  /\ InitStore("idle")
  /\ session = <<>>
  /\ restoring = FALSE
  /\ result = <<>>

\* What a run of the worker leaves in chrome.storage.session when it has
\* answered one request of tab 1 for the identifier i with a fetch of the
\* record rec.
SavedBy(i, rec) ==
  saveTabData((1 :> TabEntry(i, rec, FilmTitleOf(i))),
    saveStatus([StatusAtStart EXCEPT
                  !.lastImdbId = i, !.lastStatus = "success",
                  !.lastAspectRatio = rec.aspectRatio,
                  !.lastFilmTitle = FilmTitleOf(i),
                  !.lastUpdate = MIN_REQUEST_INTERVAL_MS,
                  !.totalFetches = 1, !.imdbRequests = 1], <<>>))

\* What an earlier run of the worker left in chrome.storage.session: it
\* answered one request of tab 1 for the first identifier with a fetch.
SavedSession ==
  SavedBy(<<"t", "t", "1">>,
          RecordOfPage(<<"t", "t", "1">>, BlockOf(<<"row">>)))

\* The worker started again in a browser session: chrome.storage.session
\* holds what the earlier run saved, SavedSession with the record of the
\* page with one ratio; the get of line 121 has read it and has not called
\* back yet.  The film of the first identifier is asked for,
\* and IMDb serves a page with one ratio or a page without label.
InitRestart(first) ==
  /\ site = {p \in PageRecords : /\ p.imdbId = <<"t", "t", "1">>
                                  /\ p.page \in {<<"row">>, <<"z01">>}}
  /\ InitStore(first)
  /\ session = SavedBy(<<"t", "t", "1">>,
                       (CHOOSE p \in site : p.page = <<"row">>).data)
  /\ restoring = TRUE
  /\ result = session

\* The restart with the messages of the content script: every request is
\* announced by updateStatus before its getAspectRatio is sent.
InitSession == InitRestart("unsent")

\* The restart with the tab events, the getAspectRatio messages alone.
InitTabs == InitRestart("idle")

\* The worker right after the first request of its life: a request of the
\* private tab for the first identifier, which fetched at once and was
\* answered ok: false for a response 404.  Its fetch is the first of
\* fetchLog, as request 0.
InitThrottle ==
  /\ site = {p \in PageRecords : /\ p.imdbId = <<"t", "t", "1">>
                                  /\ p.page \in {<<"row">>, <<"z01">>}}
  /\ pc = "worker"
  /\ clock = MIN_REQUEST_INTERVAL_MS
  /\ ticks = 0
  /\ cache = [i \in ImdbIds |-> Null]
  /\ lastImdbRequestTime = clock
  /\ reqs = [r \in Requests |-> IdleRequest]
  /\ fetchLog = <<[req |-> 0, at |-> clock]>>
  /\ responses = [r \in Requests |-> <<>>]
  /\ STATUS = [StatusAtStart EXCEPT
                 !.totalFetches = 1, !.imdbRequests = 1,
                 !.lastImdbId = <<"t", "t", "1">>,
                 !.lastFilmTitle = FilmTitleOf(<<"t", "t", "1">>),
                 !.lastStatus = "error",
                 !.lastError = "IMDb fetch failed: 404",
                 !.lastUpdate = clock]
  /\ TAB_DATA = <<>>
  /\ session = <<>>
  /\ restoring = FALSE
  /\ result = <<>>
  /\ closed = {}
  /\ ParserIdle /\ ClassifierIdle /\ SelectorIdle
  /\ entries = <<>> /\ uniq = <<>> /\ list = <<>> /\ PageIdle
  /\ ContentIdle

\* content.js 353: the number attempts is compared with.
RETRY_LIMIT == 15

\* Bound: the changes of URL the observer of content.js 376-388 sees.
MaxUrlChanges == 2

\* The timers the calls of runOncePerPage can start: one call at the start
\* and one for every change of URL.
Timers == 1..(MaxUrlChanges + 1)

\* location.pathname of the film pages the tab shows.
Paths == {<<"/", "a">>, <<"/", "b">>}

\* content.js 7-10 and 390-396: the script has been injected into a film
\* page that has no IMDb link yet and has or lacks a runtime element.  STATE
\* is as declared, no badge has been made, the first call of runOncePerPage
\* is due (at once, or at DOMContentLoaded) and the observer is installed.
InitContent ==
  /\ pc = "content"
  /\ anchor = "absent"
  /\ runtimeEl \in BOOLEAN
  /\ badge = FALSE
  /\ pathname = <<"/", "a">>
  /\ pending = 1
  /\ urlChanges = 0
  /\ interval = <<>>
  /\ inits = 0
  /\ State = [initializedForPath |-> Null, runtimeBadgeEl |-> FALSE]
  /\ ParserIdle /\ ClassifierIdle /\ SelectorIdle
  /\ entries = <<>> /\ uniq = <<>> /\ list = <<>> /\ PageIdle /\ WorkerIdle

Init ==
  \/ InitParse \/ InitAlias \/ InitSplit \/ InitClip \/ InitClassify \/ InitPrimary
  \/ InitUnique \/ InitBlocks \/ InitImdb \/ InitWorker \/ InitSession
  \/ InitTabs \/ InitThrottle \/ InitContent

(***************************************************************************)
(* Operations                                                              *)
(***************************************************************************)
\* A call of parseRatiosFromBlock(block), lines 244-338.
ParseRatiosFromBlock ==
  /\ pc = "parse"
  /\ cleaned' = (IF block = <<>> THEN <<>> ELSE CleanedText(block))
  /\ parts' = (IF block = <<>> THEN <<>> ELSE SplitParts(CleanedText(block)))
  /\ out' = parseRatiosFromBlock(block)
  /\ pc' = "parsed"
  /\ UNCHANGED <<doc, block, classifierVars, selectorVars, restVars>>

\* A call of mapRatioToType(ratio), lines 361-407.
MapRatioToType ==
  /\ pc \in {"classify", "scored"}
  /\ typeMap' = mapRatioToType(ratio)
  /\ pc' = (IF pc = "classify" THEN "mapped" ELSE "done")
  /\ UNCHANGED <<ratio, score, parserVars, selectorVars, restVars>>

\* A call of scoreForPrimary(ratio), lines 409-430.
ScoreForPrimary ==
  /\ pc \in {"classify", "mapped"}
  /\ score' = scoreForPrimary(ratio)
  /\ pc' = (IF pc = "classify" THEN "scored" ELSE "done")
  /\ UNCHANGED <<ratio, typeMap, parserVars, selectorVars, restVars>>

\* A call of choosePrimaryRatio(ratios), lines 432-445.
ChoosePrimaryRatio ==
  /\ pc = "choose"
  /\ primary' = choosePrimaryRatio(ratios)
  /\ pc' = "chosen"
  /\ UNCHANGED <<ratios, parserVars, classifierVars, restVars>>

\* Lines 461-462: uniqueRatios(entries) and the ratios of its entries.
UniqueRatios ==
  /\ pc = "unique"
  /\ uniq' = uniqueRatios(entries)
  /\ list' = [k \in 1..Len(uniqueRatios(entries)) |-> uniqueRatios(entries)[k].ratio]
  /\ pc' = "uniqued"
  /\ UNCHANGED <<entries, parserVars, classifierVars, selectorVars, pageVars,
                 workerVars, contentVars>>

\* A call of findAspectRatioBlocks(html), lines 207-241.
FindAspectRatioBlocks ==
  /\ pc = "blocks"
  /\ blocks' = findAspectRatioBlocks(html)
  /\ pc' = "blocked"
  /\ UNCHANGED <<html, record, entries, uniq, list, parserVars, classifierVars,
                 selectorVars, workerVars,
                 contentVars>>

\* Lines 499-534 of fetchImdbAspectRatio, with parseAllAspectRatiosFromImdb
\* (458-463) inside: the record returned for the response text html, or the
\* error thrown.
RecordFromHtml ==
  /\ pc = "page"
  /\ blocks' = findAspectRatioBlocks(html)
  /\ entries' = FlatMapEntries(blocks', 1)
  /\ uniq' = uniqueRatios(entries')
  /\ list' = [n \in 1..Len(uniq') |-> uniq'[n].ratio]
  /\ record' = RecordOfPage(<<"t", "t", "1">>, html)
  /\ pc' = "built"
  /\ UNCHANGED <<html, parserVars, classifierVars, selectorVars, workerVars,
                 contentVars>>

\* The variables the worker's handlers leave alone.
pureVars ==
  <<pc, parserVars, classifierVars, selectorVars, entries, uniq, list, pageVars,
    site, contentVars>>

\* Date.now() moves on, by one tick or by one tick less than the life of a
\* cache record.
Tick ==
  /\ pc = "worker"
  /\ ticks < MaxTicks
  /\ \E d \in {1, CACHE_TTL_MS - 1} : clock' = clock + d
  /\ ticks' = ticks + 1
  /\ UNCHANGED <<cache, lastImdbRequestTime, reqs, fetchLog, responses, STATUS,
                 TAB_DATA, session, restoring, result, closed, pureVars>>

\* fetchImdbAspectRatio, lines 466-483, for the request r whose locals are
\* q, with STATUS being st: the rate-limit test, then either the await of
\* the delay or, in the same turn, the stamp of lastImdbRequestTime, the
\* count of the request and the call of fetch.
BeginFetch(r, q, st) ==
  IF clock - lastImdbRequestTime < MIN_REQUEST_INTERVAL_MS
  THEN /\ reqs' = [reqs EXCEPT ![r] =
                     [q EXCEPT !.at = "delayed",
                               !.wake = clock + (MIN_REQUEST_INTERVAL_MS
                                                   - (clock - lastImdbRequestTime))]]
       /\ STATUS' = st
       /\ UNCHANGED <<lastImdbRequestTime, fetchLog>>
  ELSE /\ reqs' = [reqs EXCEPT ![r] = [q EXCEPT !.at = "fetching"]]
       /\ lastImdbRequestTime' = clock
       /\ STATUS' = [st EXCEPT !.imdbRequests = @ + 1]
       /\ fetchLog' = Append(fetchLog, [req |-> r, at |-> clock])

\* Lines 557-579: the message getAspectRatio arrives as request r from an
\* open tab, for an identifier IMDb has pages of: the tab and the identifier
\* of the updateStatus message that announced the request, when there was
\* one.  STATUS counts and names the request, and is saved for a normal
\* tab.  A normal tab awaits getCached; an incognito tab goes on, in the
\* same turn, to fetchImdbAspectRatio.
Receive(r) ==
  /\ pc = "worker"
  /\ reqs[r].at = "idle"
  /\ \A k \in 1..(r - 1) : reqs[k].at \notin {"unsent", "idle"}
  /\ \E i \in {p.imdbId : p \in site}, t \in Tabs \ closed :
       LET Announced ==
             reqs[r].tabId # 0 => (i = reqs[r].imdbId /\ t = reqs[r].tabId)
           Arrived(q, st) ==
             IF q.incognito
             THEN /\ BeginFetch(r, q, st)
                  /\ UNCHANGED session
             ELSE /\ reqs' = [reqs EXCEPT ![r] = [q EXCEPT !.at = "reading"]]
                  /\ STATUS' = st
                  /\ session' = saveStatus(st, session)
                  /\ UNCHANGED <<lastImdbRequestTime, fetchLog>>
       IN  Announced /\
           Arrived([IdleRequest EXCEPT !.imdbId = i, !.tabId = t,
                                           !.incognito = (t \in IncognitoTabs),
                                           !.filmTitle = FilmTitleOf(i),
                                           !.now = clock],
                       [STATUS EXCEPT !.totalFetches = @ + 1, !.lastImdbId = i,
                                      !.lastFilmTitle = OrElse(FilmTitleOf(i), Null),
                                      !.lastStatus = "fetching",
                                      !.lastUpdate = clock])
  /\ UNCHANGED <<clock, ticks, cache, responses, TAB_DATA, restoring, result,
                 closed,
                 pureVars>>

\* Lines 586-603 and 627-642: STATUS names the success and is saved, the tab
\* gets its entry and TAB_DATA is saved.
Succeed(q, rec) ==
  /\ STATUS' = [STATUS EXCEPT !.lastStatus = "success",
                              !.lastAspectRatio = rec.aspectRatio,
                              !.lastFilmTitle = OrElse(q.filmTitle, Null)]
  /\ TAB_DATA' = (q.tabId :> TabEntry(q.imdbId, rec, q.filmTitle)) @@ TAB_DATA
  /\ session' = saveTabData(TAB_DATA', saveStatus(STATUS', session))

\* Lines 662-670: the catch names the error in STATUS, saves STATUS for a
\* normal tab and answers ok: false.
Fail(r, message) ==
  /\ STATUS' = [STATUS EXCEPT !.lastStatus = "error", !.lastError = message]
  /\ session' = (IF reqs[r].incognito THEN session
                 ELSE saveStatus(STATUS', session))
  /\ responses' = [responses EXCEPT ![r] =
                      Append(@, [ok |-> FALSE, error |-> STATUS'.lastError])]
  /\ UNCHANGED TAB_DATA

\* Lines 578-622: getCached answers.  A record that is there, has a
\* fetchedAt and is younger than CACHE_TTL_MS at the request's now counts as
\* a hit and is sent back; otherwise fetchImdbAspectRatio is called.
CacheRead(r) ==
  /\ pc = "worker"
  /\ reqs[r].at = "reading"
  /\ LET Read(cached, q) ==
           IF IsFresh(cached, q.now)
           THEN /\ reqs' = [reqs EXCEPT ![r] = [q EXCEPT !.at = "done"]]
                /\ STATUS' = [STATUS EXCEPT !.cacheHits = @ + 1,
                                            !.lastStatus = "success",
                                            !.lastAspectRatio = cached.aspectRatio,
                                            !.lastFilmTitle = OrElse(q.filmTitle, Null)]
                /\ TAB_DATA' = (q.tabId :> TabEntry(q.imdbId, cached, q.filmTitle))
                                 @@ TAB_DATA
                /\ session' = saveTabData(TAB_DATA', saveStatus(STATUS', session))
                /\ responses' = [responses EXCEPT ![r] =
                                    Append(@, [ok |-> TRUE, data |-> cached])]
                /\ UNCHANGED <<lastImdbRequestTime, fetchLog>>
           ELSE /\ BeginFetch(r, q, STATUS)
                /\ UNCHANGED <<responses, TAB_DATA, session>>
     IN  Read(cache[reqs[r].imdbId],
              [reqs[r] EXCEPT !.cached = cache[reqs[r].imdbId]])
  /\ UNCHANGED <<clock, ticks, cache, restoring, result, closed, pureVars>>

\* Lines 474-483: the delay of the rate limit is over; lastImdbRequestTime
\* is stamped, the request counted and fetch called.
Wake(r) ==
  /\ pc = "worker"
  /\ reqs[r].at = "delayed"
  /\ clock >= reqs[r].wake
  /\ reqs' = [reqs EXCEPT ![r].at = "fetching"]
  /\ lastImdbRequestTime' = clock
  /\ STATUS' = [STATUS EXCEPT !.imdbRequests = @ + 1]
  /\ fetchLog' = Append(fetchLog, [req |-> r, at |-> clock])
  /\ UNCHANGED <<clock, ticks, cache, responses, TAB_DATA, session, restoring,
                 result,
                 closed, pureVars>>

\* A handler that calls fetch a second time when the first response is not
\* ok.
FetchDoneRetries(r) ==
  /\ pc = "worker"
  /\ reqs[r].at = "fetching"
  /\ \E outcome \in {"ok", "IMDb fetch failed: 404"} :
       IF outcome = "ok"
       THEN /\ reqs' = [reqs EXCEPT ![r].at = "text"]
            /\ UNCHANGED <<responses, STATUS, TAB_DATA, session, fetchLog>>
       ELSE IF Len(SelectSeq(fetchLog, LAMBDA f : f.req = r)) = 1
       THEN /\ fetchLog' = Append(fetchLog, [req |-> r, at |-> clock])
            /\ UNCHANGED <<reqs, responses, STATUS, TAB_DATA, session>>
       ELSE /\ reqs' = [reqs EXCEPT ![r].at = "done"]
            /\ Fail(r, outcome)
            /\ UNCHANGED fetchLog
  /\ UNCHANGED <<clock, ticks, cache, lastImdbRequestTime, restoring, result,
                 closed, pureVars>>

\* A handler that drops the stored record when the response is not ok.
FetchDoneDropsRecord(r) ==
  /\ pc = "worker"
  /\ reqs[r].at = "fetching"
  /\ \E outcome \in {"ok", "IMDb fetch failed: 404"} :
       IF outcome = "ok"
       THEN /\ reqs' = [reqs EXCEPT ![r].at = "text"]
            /\ UNCHANGED <<responses, STATUS, TAB_DATA, session, cache>>
       ELSE /\ reqs' = [reqs EXCEPT ![r].at = "done"]
            /\ cache' = [cache EXCEPT ![reqs[r].imdbId] = Null]
            /\ Fail(r, outcome)
  /\ UNCHANGED <<clock, ticks, lastImdbRequestTime, fetchLog, restoring, result,
                 closed, pureVars>>

\* Lines 483-496 and 662-670: fetch settles.  A response that is ok leads to
\* the await of its text; a response that is not throws, and the catch
\* answers ok: false.
FetchDone(r) ==
  /\ pc = "worker"
  /\ reqs[r].at = "fetching"
  /\ \E outcome \in {"ok", "IMDb fetch failed: 404"} :
       IF outcome = "ok"
       THEN /\ reqs' = [reqs EXCEPT ![r].at = "text"]
            /\ UNCHANGED <<responses, STATUS, TAB_DATA, session>>
       ELSE /\ reqs' = [reqs EXCEPT ![r].at = "done"]
            /\ Fail(r, outcome)
  /\ UNCHANGED <<clock, ticks, cache, lastImdbRequestTime, fetchLog, restoring,
                 result,
                 closed, pureVars>>

\* A handler whose record names the request it was built for.
TextDoneNamesRequest(r) ==
  /\ pc = "worker"
  /\ reqs[r].at = "text"
  /\ \E p \in site :
       LET Parsed(data, stamped) ==
             IF data = NotFound
             THEN /\ reqs' = [reqs EXCEPT ![r].at = "done", ![r].page = p.page]
                  /\ Fail(r, data.thrown)
             ELSE IF reqs[r].incognito
             THEN /\ reqs' = [reqs EXCEPT ![r].at = "done", ![r].page = p.page,
                                          ![r].record = stamped]
                  /\ STATUS' = [STATUS EXCEPT
                                  !.lastStatus = "success",
                                  !.lastAspectRatio = stamped.aspectRatio,
                                  !.lastFilmTitle = OrElse(reqs[r].filmTitle, Null)]
                  /\ TAB_DATA' = (reqs[r].tabId :>
                                    TabEntry(reqs[r].imdbId, stamped,
                                             reqs[r].filmTitle)) @@ TAB_DATA
                  /\ responses' = [responses EXCEPT ![r] =
                                      Append(@, [ok |-> TRUE, data |-> stamped])]
                  /\ UNCHANGED session
             ELSE /\ reqs' = [reqs EXCEPT
                                ![r].at = "writing", ![r].page = p.page,
                                ![r].record = stamped,
                                ![r].order =
                                  1 + Cardinality({s \in Requests :
                                                     reqs[s].order > 0})]
                  /\ UNCHANGED <<responses, STATUS, TAB_DATA, session>>
       IN  /\ p.imdbId = reqs[r].imdbId
           /\ Parsed(p.data, [fetchedAt |-> clock, request |-> r] @@ p.data)
  /\ UNCHANGED <<clock, ticks, cache, lastImdbRequestTime, fetchLog, restoring,
                 result,
                 closed, pureVars>>

\* Lines 496-534, 623-626, 643-661 and 662-670: the text of the response is
\* there.  A page without ratio throws and the catch answers ok: false;
\* otherwise the record gets its fetchedAt, and a normal tab calls and
\* awaits setCached while an incognito tab gets STATUS and its entry of TAB_DATA
\* set, with nothing saved, and is answered at once.
TextDone(r) ==
  /\ pc = "worker"
  /\ reqs[r].at = "text"
  /\ \E p \in site :
       LET Parsed(data, stamped) ==
             IF data = NotFound
             THEN /\ reqs' = [reqs EXCEPT ![r].at = "done", ![r].page = p.page]
                  /\ Fail(r, data.thrown)
             ELSE IF reqs[r].incognito
             THEN /\ reqs' = [reqs EXCEPT ![r].at = "done", ![r].page = p.page,
                                          ![r].record = stamped]
                  /\ STATUS' = [STATUS EXCEPT
                                  !.lastStatus = "success",
                                  !.lastAspectRatio = stamped.aspectRatio,
                                  !.lastFilmTitle = OrElse(reqs[r].filmTitle, Null)]
                  /\ TAB_DATA' = (reqs[r].tabId :>
                                    TabEntry(reqs[r].imdbId, stamped,
                                             reqs[r].filmTitle)) @@ TAB_DATA
                  /\ responses' = [responses EXCEPT ![r] =
                                      Append(@, [ok |-> TRUE, data |-> stamped])]
                  /\ UNCHANGED session
             ELSE /\ reqs' = [reqs EXCEPT
                                ![r].at = "writing", ![r].page = p.page,
                                ![r].record = stamped,
                                ![r].order =
                                  1 + Cardinality({s \in Requests :
                                                     reqs[s].order > 0})]
                  /\ UNCHANGED <<responses, STATUS, TAB_DATA, session>>
       IN  /\ p.imdbId = reqs[r].imdbId
           /\ Parsed(p.data, [fetchedAt |-> clock] @@ p.data)
  /\ UNCHANGED <<clock, ticks, cache, lastImdbRequestTime, fetchLog, restoring,
                 result,
                 closed, pureVars>>

\* A write that gives the stored record the new fetchedAt and keeps the rest.
WriteLandsInPlace(r) ==
  /\ pc = "worker"
  /\ reqs[r].at = "writing"
  /\ \A s \in Requests :
       reqs[s].at = "writing" => reqs[s].order >= reqs[r].order
  /\ cache' = [cache EXCEPT ![reqs[r].imdbId] =
                 IF @ = Null THEN reqs[r].record
                 ELSE [fetchedAt |-> reqs[r].record.fetchedAt] @@ @]
  /\ reqs' = [reqs EXCEPT ![r].at = "written"]
  /\ UNCHANGED <<clock, ticks, lastImdbRequestTime, fetchLog, responses, STATUS,
                 TAB_DATA, session, restoring, result, closed, pureVars>>

\* A storage that serves the calls of set in any order.
WriteLandsAnyOrder(r) ==
  /\ pc = "worker"
  /\ reqs[r].at = "writing"
  /\ cache' = [cache EXCEPT ![reqs[r].imdbId] = reqs[r].record]
  /\ reqs' = [reqs EXCEPT ![r].at = "written"]
  /\ UNCHANGED <<clock, ticks, lastImdbRequestTime, fetchLog, responses, STATUS,
                 TAB_DATA, session, restoring, result, closed, pureVars>>

\* Lines 184-189: chrome.storage.local.set puts the record under the key of
\* the identifier, at some time before its callback.  The storage serves
\* the calls of set in the order in which they were made.
WriteLands(r) ==
  /\ pc = "worker"
  /\ reqs[r].at = "writing"
  /\ \A s \in Requests :
       reqs[s].at = "writing" => reqs[s].order >= reqs[r].order
  /\ cache' = [cache EXCEPT ![reqs[r].imdbId] = reqs[r].record]
  /\ reqs' = [reqs EXCEPT ![r].at = "written"]
  /\ UNCHANGED <<clock, ticks, lastImdbRequestTime, fetchLog, responses, STATUS,
                 TAB_DATA, session, restoring, result, closed, pureVars>>

\* A handler that ends after setCached without sendResponse.
AfterWriteSilent(r) ==
  /\ pc = "worker"
  /\ reqs[r].at = "written"
  /\ reqs' = [reqs EXCEPT ![r].at = "done"]
  /\ Succeed(reqs[r], reqs[r].record)
  /\ UNCHANGED <<clock, ticks, cache, lastImdbRequestTime, fetchLog, responses,
                 restoring, result, closed, pureVars>>

\* Lines 626-661: setCached is done; STATUS and the entry of the tab are set
\* and saved, and the record is sent back.
AfterWrite(r) ==
  /\ pc = "worker"
  /\ reqs[r].at = "written"
  /\ reqs' = [reqs EXCEPT ![r].at = "done"]
  /\ Succeed(reqs[r], reqs[r].record)
  /\ responses' = [responses EXCEPT ![r] =
                      Append(@, [ok |-> TRUE, data |-> reqs[r].record])]
  /\ UNCHANGED <<clock, ticks, cache, lastImdbRequestTime, fetchLog, restoring,
                 result,
                 closed, pureVars>>

\* Lines 121-133: the callback of chrome.storage.session.get.  result is
\* what the get read when the worker started; what the handlers have saved
\* since is not in it.  The saved status is laid over STATUS, field by
\* field, and every saved entry is set in TAB_DATA under its key parsed.
SessionRestored ==
  /\ pc = "worker"
  /\ restoring
  /\ restoring' = FALSE
  /\ STATUS' = (IF "status" \in DOMAIN result THEN result["status"] @@ STATUS
                ELSE STATUS)
  /\ TAB_DATA' = (IF "tabData" \in DOMAIN result
                  THEN RestoreTabData(result["tabData"], TAB_DATA)
                  ELSE TAB_DATA)
  /\ UNCHANGED <<clock, ticks, cache, lastImdbRequestTime, reqs, fetchLog,
                 responses, session, result, closed, pureVars>>

\* Lines 551-555: chrome.tabs.onRemoved for the tab t.
TabRemoved(t) ==
  /\ pc = "worker"
  /\ t \notin closed
  /\ closed' = closed \cup {t}
  /\ TAB_DATA' = DeleteTab(TAB_DATA, t)
  /\ session' = saveTabData(TAB_DATA', session)
  /\ UNCHANGED <<clock, ticks, cache, lastImdbRequestTime, reqs, fetchLog,
                 responses, STATUS, restoring, result, pureVars>>

\* Lines 542-549: chrome.tabs.onUpdated with a new url for the open tab t.
TabUpdated(t) ==
  /\ pc = "worker"
  /\ t \notin closed
  /\ TAB_DATA' = DeleteTab(TAB_DATA, t)
  /\ session' = saveTabData(TAB_DATA', session)
  /\ UNCHANGED <<clock, ticks, cache, lastImdbRequestTime, reqs, fetchLog,
                 responses, STATUS, restoring, result, closed, pureVars>>

\* content.js 291-296: the message initWithAnchor sends before it asks for
\* the ratio of the identifier i.
FetchingMessage(i) ==
  [imdbId |-> i, status |-> "fetching", aspectRatio |-> Null,
   filmTitle |-> FilmTitleOf(i), error |-> ""]

\* content.js 298-320: the message sent once the request q is answered with
\* resp, success with the ratio of the record or error with resp.error
\* or "Not found".
AnsweredMessage(q, resp) ==
  IF resp.ok /\ resp.data # Null
  THEN [imdbId |-> q.imdbId, status |-> "success",
        aspectRatio |-> resp.data.aspectRatio, filmTitle |-> q.filmTitle,
        error |-> ""]
  ELSE [imdbId |-> q.imdbId, status |-> "error", aspectRatio |-> Null,
        filmTitle |-> q.filmTitle,
        error |-> IF resp.ok \/ resp.error = "" THEN "Not found"
                  ELSE resp.error]

\* Lines 675-699, the handler of updateStatus for the message msg of the tab
\* tabId: every field of msg that is truthy is taken into STATUS, lastUpdate
\* is set and STATUS is saved, whatever the tab; with an aspectRatio the tab
\* gets an entry, which keeps the displayText of the entry it replaces, and
\* TAB_DATA is saved.  An absent text is Null and an absent status or error
\* the empty string.
updateStatus(msg, tabId) ==
  /\ STATUS' = [STATUS EXCEPT
                  !.lastImdbId = OrElse(msg.imdbId, @),
                  !.lastStatus = (IF msg.status = "" THEN @ ELSE msg.status),
                  !.lastAspectRatio = OrElse(msg.aspectRatio, @),
                  !.lastFilmTitle = OrElse(msg.filmTitle, @),
                  !.lastError = (IF msg.error = "" THEN @ ELSE msg.error),
                  !.lastUpdate = clock]
  /\ IF tabId # 0 /\ OrElse(msg.aspectRatio, Null) # Null
     THEN /\ TAB_DATA' =
               (tabId :>
                  [imdbId |-> OrElse(msg.imdbId, STATUS'.lastImdbId),
                   aspectRatio |-> msg.aspectRatio,
                   displayText |->
                     IF tabId \in DOMAIN TAB_DATA
                     THEN OrElse(TAB_DATA[tabId].displayText, msg.aspectRatio)
                     ELSE msg.aspectRatio,
                   filmTitle |-> OrElse(msg.filmTitle, Null)])
                 @@ TAB_DATA
          /\ session' = saveTabData(TAB_DATA', saveStatus(STATUS', session))
     ELSE /\ session' = saveStatus(STATUS', session)
          /\ UNCHANGED TAB_DATA

\* The message updateStatus arrives for request r.  The content script of an
\* open tab sends it with status fetching before it sends getAspectRatio
\* for an identifier IMDb has pages of, and with the outcome once the
\* request is answered.
UpdateStatus(r) ==
  /\ pc = "worker"
  /\ \/ /\ reqs[r].at = "unsent"
        /\ \A k \in 1..(r - 1) : reqs[k].at # "unsent"
        /\ \E i \in {p.imdbId : p \in site}, t \in Tabs \ closed :
             /\ reqs' = [reqs EXCEPT ![r] =
                           [@ EXCEPT !.at = "idle", !.imdbId = i, !.tabId = t,
                                     !.incognito = (t \in IncognitoTabs),
                                     !.filmTitle = FilmTitleOf(i)]]
             /\ updateStatus(FetchingMessage(i), t)
     \/ /\ reqs[r].at = "done"
        /\ reqs[r].tabId \notin closed
        /\ reqs' = [reqs EXCEPT ![r].at = "reported"]
        /\ updateStatus(AnsweredMessage(reqs[r], responses[r][1]),
                        reqs[r].tabId)
  /\ UNCHANGED <<clock, ticks, cache, lastImdbRequestTime, fetchLog, responses,
                 restoring, result, closed, pureVars>>

\* The variables the content script leaves alone.
workerSide ==
  <<parserVars, classifierVars, selectorVars, entries, uniq, list, pageVars,
    workerVars>>

\* content.js 260-288, initWithAnchor(a, path) on s, the STATE and the badge
\* of the document: an anchor whose href has no identifier ends the call;
\* otherwise the runtime badge is looked for again when STATE has none, a
\* badge next to the link is the fallback, and the path is marked.
initWithAnchor(a, path, s) ==
  IF a = "noid" THEN s
  ELSE [State |-> [s.State EXCEPT !.runtimeBadgeEl = @ \/ runtimeEl,
                                  !.initializedForPath = path],
        badge |-> s.badge \/ ~s.State.runtimeBadgeEl]

\* content.js 348: the timer setInterval returns, with the path and the
\* attempts of the call that made it.  lookups counts its calls of
\* findImdbLink and inits its calls of initWithAnchor; marked and
\* noLinkShown tell what its last callback did without a link: the path
\* was marked, a badge got the text "No IMDb link".
NewInterval(path) ==
  [path |-> path, attempts |-> 0, state |-> "running", lookups |-> 0,
   inits |-> 0, marked |-> FALSE, noLinkShown |-> FALSE]

\* content.js 324-373, a scheduled call of runOncePerPage: nothing is done
\* for the path STATE names as initialized.  Otherwise the runtime badge is
\* made when the runtime element is there and forgotten when it is not;
\* without IMDb link a timer of 400 ms is started, with the link
\* initWithAnchor is called.
RunOncePerPage ==
  /\ pc = "content"
  /\ pending > 0
  /\ pending' = pending - 1
  /\ IF State.initializedForPath = pathname
     THEN UNCHANGED <<State, badge, interval, inits>>
     ELSE LET s == [State |-> [State EXCEPT !.runtimeBadgeEl = runtimeEl],
                    badge |-> badge \/ runtimeEl]
              t == initWithAnchor(anchor, pathname, s)
          IN  IF anchor = "absent"
              THEN /\ State' = s.State
                   /\ badge' = s.badge
                   /\ interval' = Append(interval, NewInterval(pathname))
                   /\ UNCHANGED inits
              ELSE /\ State' = t.State
                   /\ badge' = t.badge
                   /\ inits' = inits + 1
                   /\ UNCHANGED interval
  /\ UNCHANGED <<pc, anchor, runtimeEl, pathname, urlChanges, workerSide>>

\* content.js 376-388: the observer sees a mutation after location.href has
\* changed.  The pathname is that of a film page, the same as before when
\* only the rest of the URL changed; the document is that of the new page
\* and keeps or loses the badges made; STATE.initializedForPath is reset and
\* runOncePerPage is scheduled.  No timer is cleared.
UrlChanges ==
  /\ pc = "content"
  /\ urlChanges < MaxUrlChanges
  /\ urlChanges' = urlChanges + 1
  /\ pathname' \in Paths
  /\ anchor' \in {"absent", "valid", "noid"}
  /\ runtimeEl' \in BOOLEAN
  /\ badge' \in {FALSE, badge}
  /\ State' = [State EXCEPT !.initializedForPath = Null]
  /\ pending' = pending + 1
  /\ UNCHANGED <<pc, interval, inits, workerSide>>

\* The page gets its IMDb link, with or without an identifier in its href.
LinkAppears ==
  /\ pc = "content"
  /\ anchor = "absent"
  /\ anchor' \in {"valid", "noid"}
  /\ UNCHANGED <<pc, runtimeEl, badge, pathname, pending, urlChanges, interval,
                 inits, State, workerSide>>

\* content.js 349-371: the timer k fires.  attempts is counted, the link
\* looked for, and with a link or with attempts > 15 the timer is cleared:
\* initWithAnchor is called for the link and the path of the timer, or the
\* runtime badge, else a badge of the document, says that there is no link
\* and the path of the timer is marked.
IntervalFires(k) ==
  /\ pc = "content"
  /\ k \in DOMAIN interval
  /\ interval[k].state = "running"
  /\ LET iv == [interval[k] EXCEPT !.attempts = @ + 1, !.lookups = @ + 1]
         t == initWithAnchor(anchor, iv.path, [State |-> State, badge |-> badge])
     IN  IF anchor # "absent" \/ iv.attempts > RETRY_LIMIT
         THEN IF anchor # "absent"
              THEN /\ State' = t.State
                   /\ badge' = t.badge
                   /\ inits' = inits + 1
                   /\ interval' = [interval EXCEPT ![k] =
                                     [iv EXCEPT !.state = "cleared",
                                                !.inits = @ + 1]]
              ELSE /\ State' = [State EXCEPT !.initializedForPath = iv.path]
                   /\ interval' = [interval EXCEPT ![k] =
                                     [iv EXCEPT
                                        !.state = "cleared",
                                        !.noLinkShown = State.runtimeBadgeEl
                                                          \/ badge,
                                        !.marked =
                                          State'.initializedForPath = iv.path]]
                   /\ UNCHANGED <<badge, inits>>
         ELSE /\ interval' = [interval EXCEPT ![k] = iv]
              /\ UNCHANGED <<badge, inits, State>>
  /\ UNCHANGED <<pc, anchor, runtimeEl, pathname, pending, urlChanges,
                 workerSide>>

NextContent ==
  \/ RunOncePerPage \/ UrlChanges \/ LinkAppears
  \/ \E k \in Timers : IntervalFires(k)

\* The handlers of getAspectRatio and the clock.
NextWorker ==
  \/ Tick
  \/ \E r \in Requests :
       \/ Receive(r) \/ CacheRead(r) \/ Wake(r) \/ FetchDone(r) \/ TextDone(r)
       \/ WriteLands(r) \/ AfterWrite(r)

\* The restore callback and the updateStatus messages.
NextSession ==
  \/ SessionRestored
  \/ \E r \in Requests : UpdateStatus(r)

\* The restore callback and the tab events.
NextTabs ==
  \/ SessionRestored
  \/ \E t \in Tabs : TabRemoved(t) \/ TabUpdated(t)

Next ==
  \/ ParseRatiosFromBlock \/ MapRatioToType \/ ScoreForPrimary \/ ChoosePrimaryRatio
  \/ UniqueRatios \/ FindAspectRatioBlocks \/ RecordFromHtml \/ NextWorker
  \/ NextSession \/ NextTabs \/ NextContent

Spec == Init /\ [][Next]_vars

NextParse == ParseRatiosFromBlock
NextClassify == MapRatioToType \/ ScoreForPrimary
NextPrimary == ChoosePrimaryRatio

\* The parser on token documents, on alias documents, on segment documents,
\* on label documents; the classifier; the selector.
SpecParse == InitParse /\ [][NextParse]_vars
SpecAlias == InitAlias /\ [][NextParse]_vars
SpecSplit == InitSplit /\ [][NextParse]_vars
SpecClip == InitClip /\ [][NextParse]_vars
SpecClassify == InitClassify /\ [][NextClassify]_vars
SpecPrimary == InitPrimary /\ [][NextPrimary]_vars

\* The deduplicator on lists of entries.
SpecUnique == InitUnique /\ [][UniqueRatios]_vars

\* The block extractor on pages.
SpecBlocks == InitBlocks /\ [][FindAspectRatioBlocks]_vars

\* The record builder on pages.
SpecImdb == InitImdb /\ [][RecordFromHtml]_vars

\* The worker and its requests.
SpecWorker == InitWorker /\ [][NextWorker]_vars

\* The worker started again in a browser session, with the restore callback
\* and, for every request, the updateStatus messages around it.
SpecSession == InitSession /\ [][NextWorker \/ NextSession]_vars

\* The content script in a tab whose first page has no IMDb link at first,
\* with the changes of URL its observer sees.
SpecContent == InitContent /\ [][NextContent]_vars

\* The worker and its requests right after an earlier fetch.
SpecThrottle == InitThrottle /\ [][NextWorker]_vars

\* The same, with every await of a handler settling and the clock going on
\* as long as the model lets it: the storage read, the delay, the fetch, the
\* text and the storage write complete.
SpecAnswer ==
  /\ SpecThrottle
  /\ WF_vars(Tick)
  /\ \A r \in Requests :
       /\ WF_vars(CacheRead(r)) /\ WF_vars(Wake(r)) /\ WF_vars(FetchDone(r))
       /\ WF_vars(TextDone(r)) /\ WF_vars(WriteLands(r))
       /\ WF_vars(AfterWrite(r))

\* The worker started again in a browser session, with its requests, the
\* restore callback and the tab events.
SpecTabs == InitTabs /\ [][NextWorker \/ NextTabs]_vars

(***************************************************************************)
(* The primary selector                                                    *)
(***************************************************************************)
\* C1: for every non-empty list, choosePrimaryRatio returns an element of the
\* list whose score is the maximum over the list, and of the elements with
\* the maximum score the one at the smallest index.
C1_PrimaryIsFirstMaximum ==
  (pc = "chosen" /\ ratios # <<>>) =>
    \E i \in 1..Len(ratios) :
      /\ primary = ratios[i]
      /\ \A j \in 1..Len(ratios) :
           scoreForPrimary(ratios[j]) <= scoreForPrimary(ratios[i])
      /\ \A j \in 1..(i - 1) :
           scoreForPrimary(ratios[j]) < scoreForPrimary(ratios[i])

\* A list whose maximum score is shared by two different ratios after a
\* ratio of smaller score: the earlier of the two is chosen.
C1_Witness ==
  /\ pc = "chosen"
  /\ ratios = <<CanonicalRatio(133), CanonicalRatio(235), CanonicalRatio(239)>>
  /\ primary = CanonicalRatio(235)

(***************************************************************************)
(* The preference scores and the format names                              *)
(***************************************************************************)
\* |val - t| <= 0.02 in exact arithmetic.
ExactWithin(val, t) ==
  50 * Abs(Numerator(val) * t.d - t.n * Denominator(val)) <= Denominator(val) * t.d

ExactWithinAny(val, targets) ==
  \E k \in 1..Len(targets) : ExactWithin(val, targets[k])

\* The preference table as the specification states it.
StatedScores ==
  << <<240, 100>>, <<239, 100>>, <<235, 100>>, <<185, 95>>, <<220, 90>>,
     <<190, 85>>, <<211, 83>>, <<178, 80>>, <<166, 70>>, <<200, 60>>,
     <<143, 50>>, <<144, 50>>, <<276, 45>>, <<259, 43>>, <<137, 40>>,
     <<133, 35>>, <<119, 30>>, <<400, 25>> >>

\* The score the specification states for the value val: that of the first
\* target of the table within 0.02 of it, 10 if there is none.
StatedScore(val) ==
  IF \A k \in 1..Len(StatedScores) : ~ExactWithin(val, T(StatedScores[k][1]))
  THEN 10
  ELSE LET k == CHOOSE k \in 1..Len(StatedScores) :
                  /\ ExactWithin(val, T(StatedScores[k][1]))
                  /\ \A j \in 1..(k - 1) : ~ExactWithin(val, T(StatedScores[j][1]))
       IN  StatedScores[k][2]

\* C2: for every ratio with a numeric value, scoreForPrimary returns the score
\* of the preference table with tolerance 0.02 (Scope family 100, 1.85 95,
\* ..., 4.00 25, every other value 10).  The code does not: 2.37:1 is 0.02
\* from 2.35 and from 2.39 and scores 10.
C2_ScoreIsStatedScore ==
  (pc \in {"scored", "done"} /\ ratioToNumber(ratio) # NoNumber) =>
    score = StatedScore(ratioToNumber(ratio))

\* The first row of the format table within 0.02 of val in exact arithmetic;
\* 0 if none.
StatedRow(val) ==
  IF \A k \in 1..Len(TypeTable) : ~ExactWithinAny(val, TypeTable[k].targets) THEN 0
  ELSE CHOOSE k \in 1..Len(TypeTable) :
         /\ ExactWithinAny(val, TypeTable[k].targets)
         /\ \A j \in 1..(k - 1) : ~ExactWithinAny(val, TypeTable[j].targets)

\* C3: for every ratio value, mapRatioToType returns the names of the first
\* entry of the ordered table whose target is within 0.02 of the value, so
\* that 1.35, within 0.02 of 1.37 and of 1.33, takes the earlier entry
\* (Academy).  The code does not: its comparison of doubles rejects 1.37 and
\* 1.33 for 1.35, and 1.35 is named 4:3 by the target 4/3.
C3_TypeIsFirstStatedRow ==
  (pc \in {"mapped", "done"} /\ ratioToNumber(ratio) # NoNumber) =>
    LET k == StatedRow(ratioToNumber(ratio))
    IN  typeMap = IF k = 0 THEN NoType
                  ELSE [short |-> TypeTable[k].short, long |-> TypeTable[k].long]

\* C4: mapRatioToType returns for every input, text that is no ratio, a ratio
\* with zero denominator and null included, a pair whose short and long
\* names are both null or both not null.
C4_ShortAndLongTogether ==
  (pc \in {"mapped", "done"}) =>
    /\ typeMap.short = Null <=> typeMap.long = Null
    /\ ratioToNumber(ratio) = NoNumber => typeMap = NoType
    /\ typeMap # NoType => \E k \in 1..Len(TypeTable) : typeMap.short = TypeTable[k].short

\* A ratio with zero denominator is classified: both names are null.
C4_Witness ==
  /\ pc \in {"mapped", "done"}
  /\ ratio = <<"1", ":", "0">>
  /\ typeMap.short = Null
  /\ typeMap.long = Null

(***************************************************************************)
(* The parser, stated on the fragments of the document                     *)
(***************************************************************************)
SeparatorFrags == {"semicolon", "bullet"}
NumericFrags == {"r239s", "r239", "r169", "z01", "z50", "huge"}
ZeroFrags == {"z01", "z50"}
NextFieldFrags == {"camera", "filmlength"}

\* round(N / D, 2 decimals) + ":1" of the numeric fragments with N, D > 0.
StatedRatio ==
  ("r239s" :> CanonicalRatio(239)) @@
  ("r239" :> CanonicalRatio(239)) @@
  ("r169" :> CanonicalRatio(178)) @@
  ("huge" :> <<"1", "0", "0", "0", "0", "0", "0", "0", "0", "0", "0", "0",
               "0", "0", "0", "0", "0", "0", "0", "0", "0", "0", "0", ".",
               "0", "0", ":", "1">>)

\* The token of a numeric fragment with its whitespace removed.
StatedRaw ==
  ("r239s" :> <<"2", ".", "3", "9", ":", "1">>) @@
  ("r239" :> <<"2", ".", "3", "9", ":", "1">>) @@
  ("r169" :> <<"1", "6", ":", "9">>) @@
  ("z01" :> <<"0", ":", "1">>) @@
  ("z50" :> <<"5", ":", "0">>) @@
  ("huge" :> <<"1", "0", "0", "0", "0", "0", "0", "0", "0", "0", "0", "0",
               "0", "0", "0", "0", "0", "0", "0", "0", "0", "0", "0", ":",
               "1">>)

\* The segments of a sequence of fragments: cut at every separator that no
\* parenthesis encloses, a closing parenthesis with none open enclosing
\* nothing; empty segments dropped.
RECURSIVE StatedSplit(_, _, _, _)
StatedSplit(body, n, current, depth) ==
  LET done == IF current = <<>> THEN <<>> ELSE <<current>>
  IN  IF n > Len(body) THEN done
      ELSE LET f == body[n]
               d == IF f = "open" THEN depth + 1
                    ELSE IF f = "close" /\ depth > 0 THEN depth - 1
                    ELSE depth
           IN  IF f \in SeparatorFrags /\ d = 0
               THEN done \o StatedSplit(body, n + 1, <<>>, d)
               ELSE StatedSplit(body, n + 1, Append(current, f), d)

StatedSegments(body) == StatedSplit(body, 1, <<>>, 0)

\* The first numeric fragment of a segment, "none" if it has none.
FirstNumeric(seg) ==
  IF \A k \in 1..Len(seg) : seg[k] \notin NumericFrags THEN "none"
  ELSE seg[CHOOSE k \in 1..Len(seg) :
             seg[k] \in NumericFrags /\ \A j \in 1..(k - 1) : seg[j] \notin NumericFrags]

Has(seg, f) == \E k \in 1..Len(seg) : seg[k] = f

\* The ratio fields, and the raw fields, of a list of entries.
RatiosOf(es) == [k \in 1..Len(es) |-> es[k].ratio]
RawsOf(es) == [k \in 1..Len(es) |-> es[k].raw]

\* ^\d+\.\d{2}:1$
IsCanonical(text) ==
  LET n == Len(text)
  IN  /\ n >= 6
      /\ text[n] = "1" /\ text[n - 1] = ":"
      /\ IsDigit(text[n - 2]) /\ IsDigit(text[n - 3])
      /\ text[n - 4] = "."
      /\ \A i \in 1..(n - 5) : IsDigit(text[i])

\* C5: every entry parseRatiosFromBlock returns has a ratio of the form
\* digits, dot, two digits, ":1".  The code does not keep it: the numerator
\* 10000000000000000000000 is written 1e+22:1.
C5_RatioIsCanonical ==
  (pc = "parsed") => \A k \in 1..Len(out) : IsCanonical(out[k].ratio)

\* The ratios stated for the segments from the n-th on: that of the first
\* numeric token of the segment when its numerator and denominator are
\* positive.
RECURSIVE StatedRatiosFrom(_, _)
StatedRatiosFrom(segs, n) ==
  IF n > Len(segs) THEN <<>>
  ELSE LET f == FirstNumeric(segs[n])
       IN  (IF f = "none" \/ f \in ZeroFrags THEN <<>> ELSE <<StatedRatio[f]>>)
             \o StatedRatiosFrom(segs, n + 1)

\* C6: every segment whose first numeric token is N : D with N, D > 0 gives
\* the ratio round(N / D, 2 decimals) + ":1", whatever the whitespace around
\* the colon.  The code does not for the numerator of C5, written 1e+22:1
\* in the place of 10000000000000000000000.00:1.
C6_RatioIsRoundedQuotient ==
  (pc = "parsed") =>
    RatiosOf(out) = StatedRatiosFrom(StatedSegments(Tail(doc)), 1)

\* The raw tokens stated for the segments from the n-th on: the first
\* numeric token of each segment that has one.
RECURSIVE StatedRawsFrom(_, _)
StatedRawsFrom(segs, n) ==
  IF n > Len(segs) THEN <<>>
  ELSE LET f == FirstNumeric(segs[n])
       IN  (IF f = "none" THEN <<>> ELSE <<StatedRaw[f]>>)
             \o StatedRawsFrom(segs, n + 1)

NotZeroFrag(f) == f \notin ZeroFrags

\* C7: a token with numerator or denominator zero yields no entry and keeps
\* no other token from yielding its entry: the entries are those of the
\* document without its zero tokens.  The code does not: in "0:1 2.39:1" the
\* zero token is the first match of its segment and the segment is dropped.
C7_ZeroTokenBlocksNothing ==
  (pc = "parsed") =>
    RawsOf(out) = StatedRawsFrom(StatedSegments(SelectSeq(Tail(doc), NotZeroFrag)), 1)

\* The ratio stated for a segment of an alias document: that of its first
\* numeric token if it has one; else that of the first alias, in the order
\* academy, full screen, then hdtv or 1.78, that it contains.
StatedAliasRatio(seg) ==
  LET f == FirstNumeric(seg)
  IN  IF f # "none" THEN (IF f \in ZeroFrags THEN <<>> ELSE <<StatedRatio[f]>>)
      ELSE IF Has(seg, "academy") THEN <<CanonicalRatio(137)>>
      ELSE IF Has(seg, "fullscreen") THEN <<CanonicalRatio(133)>>
      ELSE IF Has(seg, "hdtv") \/ Has(seg, "n178") THEN <<CanonicalRatio(178)>>
      ELSE <<>>

RECURSIVE StatedAliasRatiosFrom(_, _)
StatedAliasRatiosFrom(segs, n) ==
  IF n > Len(segs) THEN <<>>
  ELSE StatedAliasRatio(segs[n]) \o StatedAliasRatiosFrom(segs, n + 1)

\* C8: a segment is tested against the aliases only when it has no numeric
\* pattern; then the first alias it matches, in the order academy, 4:3 or
\* full screen, 16:9 or hdtv or 1.78, gives its one entry, and a segment that
\* matches none gives no entry.  The code does not: the segment "1.43"
\* matches no alias and gives the entry 1.33:1, by its digits 43.
C8_AliasByPriority ==
  (pc = "parsed") =>
    RatiosOf(out) = StatedAliasRatiosFrom(StatedSegments(Tail(doc)), 1)

\* The texts of the segments from the n-th on.
RECURSIVE SegmentTextsFrom(_, _)
SegmentTextsFrom(segs, n) ==
  IF n > Len(segs) THEN <<>>
  ELSE <<BlockOf(segs[n])>> \o SegmentTextsFrom(segs, n + 1)

\* C9: the cleaned text is split at a separator exactly when no parenthesis
\* encloses the separator, unbalanced parentheses included.  The code does
\* not: after a closing parenthesis with none open its depth is -1 and no
\* later separator splits.
C9_SplitOutsideParentheses ==
  (pc = "parsed") => parts = SegmentTextsFrom(StatedSegments(Tail(doc)), 1)

\* The fragments after the first label and before the first next-field label
\* that follows it.
StatedRegion(d) ==
  LET i    == CHOOSE k \in 1..Len(d) :
                d[k] = "label" /\ \A j \in 1..(k - 1) : d[j] # "label"
      rest == SubSeq(d, i + 1, Len(d))
      stop == IF \A k \in 1..Len(rest) : rest[k] \notin NextFieldFrags
              THEN Len(rest) + 1
              ELSE CHOOSE k \in 1..Len(rest) :
                     /\ rest[k] \in NextFieldFrags
                     /\ \A j \in 1..(k - 1) : rest[j] \notin NextFieldFrags
  IN  SubSeq(rest, 1, stop - 1)

\* C10: the entries come from the text after the first label "Aspect ratio"
\* and before the first next-field label that follows it only: no token
\* before the label, and none at or after the next-field label, yields an
\* entry.
C10_EntriesFromLabelledRegion ==
  (pc = "parsed" /\ Has(doc, "label")) =>
    RawsOf(out) = StatedRawsFrom(StatedSegments(StatedRegion(doc)), 1)

\* A token before the label and a token after the next-field label, with
\* nothing between the two labels: no entry.
C10_Witness ==
  /\ pc = "parsed"
  /\ doc = <<"r169", "label", "camera", "r239">>
  /\ out = <<>>

(***************************************************************************)
(* The deduplicator                                                        *)
(***************************************************************************)
HasRatio(e) == e.ratio # Null /\ e.ratio # <<>>

\* The indices of the first occurrences of the ratios of a list of entries.
FirstIndices(es) ==
  {i \in 1..Len(es) :
     HasRatio(es[i]) /\ \A j \in 1..(i - 1) : es[j].ratio # es[i].ratio}

\* The sub-list of the first occurrences, in the order of the list.
FirstOccurrences(es) ==
  [k \in 1..Cardinality(FirstIndices(es)) |->
     es[CHOOSE i \in FirstIndices(es) :
          Cardinality({j \in FirstIndices(es) : j < i}) = k - 1]]

NoDuplicate(s) == \A a, b \in 1..Len(s) : a # b => s[a] # s[b]

\* C11: uniqueRatios returns the sub-list that holds for each distinct ratio
\* its first occurrence only, in the original order; no two returned entries
\* have the same ratio, and the list of ratios made of them has no duplicate.
C11_FirstOccurrencesOnly ==
  (pc = "uniqued") =>
    /\ uniq = FirstOccurrences(entries)
    /\ NoDuplicate(RatiosOf(uniq))
    /\ list = RatiosOf(uniq)
    /\ NoDuplicate(list)

\* A list in which the second entry of 2.39:1 differs from the first in raw
\* and note and comes after an entry of another ratio: the first is kept.
C11_Witness ==
  /\ pc = "uniqued"
  /\ Len(entries) = 3
  /\ entries[1].ratio = CanonicalRatio(239) /\ entries[1].note = Null
  /\ entries[2].ratio = CanonicalRatio(185)
  /\ entries[3].ratio = CanonicalRatio(239) /\ entries[3].note # Null
  /\ uniq = <<entries[1], entries[2]>>

\* C12: uniqueRatios is idempotent: uniqueRatios(uniqueRatios(x)) is
\* uniqueRatios(x) for every list x of entries.
C12_UniqueIsIdempotent ==
  (pc = "uniqued") => uniqueRatios(uniq) = uniq

\* A list with a repeated ratio, so that uniqueRatios removed an entry.
C12_Witness ==
  /\ pc = "uniqued"
  /\ Len(uniq) = 2
  /\ Len(entries) = 4
  /\ HasRatio(entries[4])


(***************************************************************************)
(* The block extractor                                                     *)
(***************************************************************************)
\* The matches of the n-th structural pattern in the page.
PageMatches(n) ==
  AllMatches(ReplaceTags(ReplaceTags(html, TagPatterns[1], 1), TagPatterns[2], 1),
             1, BlockPatterns[n])

\* The page as it is searched, stated on its fragments: a script fragment
\* leaves nothing but the spaces around it.
RECURSIVE StatedPageFrom(_, _)
StatedPageFrom(d, n) ==
  LET text == IF d[n] = "script" THEN <<>> ELSE FragmentText[d[n]]
  IN  IF n > Len(d) THEN <<>>
      ELSE IF n = Len(d) THEN text
      ELSE text \o <<" ">> \o StatedPageFrom(d, n + 1)

\* The window of the fallback, stated on the fragments: from 200 characters
\* before the first bare label to 800 characters after its start.
StatedWindow(d) ==
  LET page == StatedPageFrom(d, 1)
      k == CHOOSE i \in 1..Len(d) :
             d[i] = "label" /\ \A j \in 1..(i - 1) : d[j] # "label"
      before == Len(StatedPageFrom(SubSeq(d, 1, k - 1), 1)) + (IF k > 1 THEN 1 ELSE 0)
      first == IF before > 200 THEN before - 200 + 1 ELSE 1
      last == IF before + 800 < Len(page) THEN before + 800 ELSE Len(page)
  IN  SubSeq(page, first, last)

\* C13: findAspectRatioBlocks returns the matches of the table-row pattern,
\* then those of the list-item pattern, then those of the tagged container,
\* then those of the section pattern, whichever of them match; only when
\* none of them matches it returns the window around the first bare label,
\* as its only block.
C13_AllPatternsThenWindow ==
  pc = "blocked" =>
    LET all == PageMatches(1) \o PageMatches(2) \o PageMatches(3) \o PageMatches(4)
    IN  /\ all # <<>> => blocks = all
        /\ all = <<>> =>
             blocks = (IF \E i \in 1..Len(doc) : doc[i] = "label"
                       THEN <<StatedWindow(doc)>> ELSE <<>>)

\* A list item before a table row: the row is the first block, the item the
\* second.
C13_Witness ==
  /\ pc = "blocked"
  /\ doc = <<"item", "row">>
  /\ blocks = <<FragmentText["row"], FragmentText["item"]>>

\* The fragments that show the label, with or without its space.
LabelFrags == {"row", "rowtwo", "item", "label", "tight"}

\* C14: a page in which the label "Aspect ratio" occurs nowhere outside
\* scripts and styles yields no block.
C14_NoLabelNoBlocks ==
  (pc = "blocked" /\ \A i \in 1..Len(doc) : doc[i] \notin LabelFrags)
    => blocks = <<>>


(***************************************************************************)
(* The record                                                              *)
(***************************************************************************)
\* fetchImdbAspectRatio has returned a record.
Returned == pc = "built" /\ record # NotFound

\* C15: the aspectRatio of a returned record is one of the elements of its
\* allAspectRatios.
C15_PrimaryIsListed ==
  Returned =>
    \E k \in 1..Len(record.allAspectRatios) :
      record.allAspectRatios[k] = record.aspectRatio

\* A record of two ratios whose aspectRatio is the second.
C15_Witness ==
  /\ Returned
  /\ Len(record.allAspectRatios) = 2
  /\ record.aspectRatio = record.allAspectRatios[2]
  /\ record.aspectRatio # record.allAspectRatios[1]

\* The display text of the first n ratios, stated from the left.
RECURSIVE StatedDisplay(_, _)
StatedDisplay(rs, n) ==
  LET named == mapRatioToType(rs[n]).long \notin {Null, <<>>}
      part == IF named
              THEN rs[n] \o <<" ", "(">> \o mapRatioToType(rs[n]).long \o <<")">>
              ELSE rs[n]
  IN  IF n = 0 THEN <<>>
      ELSE IF n = 1 THEN part
      ELSE StatedDisplay(rs, n - 1) \o <<" ", "U+2022", " ">> \o part

\* C17: displayText is the elements of allAspectRatios in list order, joined
\* by a bullet between two spaces, each followed by its long name in
\* parentheses when mapRatioToType gives it one.
C17_DisplayTextIsJoinedList ==
  Returned =>
    record.displayText =
      StatedDisplay(record.allAspectRatios, Len(record.allAspectRatios))

\* A record with a named ratio and a ratio without name.
C17_Witness ==
  /\ Returned
  /\ \E i, j \in 1..Len(record.allAspectRatios) :
       /\ mapRatioToType(record.allAspectRatios[i]).long = Null
       /\ mapRatioToType(record.allAspectRatios[j]).long # Null
  /\ record.displayText # <<>>

\* C18: mappedTypeShort and mappedTypeLong are the short and the long name
\* that mapRatioToType gives the record's aspectRatio.
C18_TypeIsOfPrimary ==
  Returned =>
    /\ record.mappedTypeShort = mapRatioToType(record.aspectRatio).short
    /\ record.mappedTypeLong = mapRatioToType(record.aspectRatio).long

\* A record whose first listed ratio has another type than its aspectRatio.
C18_Witness ==
  /\ Returned
  /\ mapRatioToType(record.allAspectRatios[1]).long # record.mappedTypeLong
  /\ record.mappedTypeLong # Null


(***************************************************************************)
(* The worker                                                              *)
(***************************************************************************)
\* The request r has called fetch.
HasFetched(r) == \E k \in 1..Len(fetchLog) : fetchLog[k].req = r

\* The request r was answered with the record it read from the store.
ServedFromCache(r) ==
  /\ reqs[r].at = "done"
  /\ reqs[r].cached # Null
  /\ responses[r] = <<[ok |-> TRUE, data |-> reqs[r].cached]>>

\* The fragments with a ratio the parser accepts.
RatioFrags == {"row", "rowtwo", "rowbare", "item", "tagged"}

\* C16: a page without ratio entry makes fetchImdbAspectRatio throw the
\* not-found error, the requester gets ok: false with its message, and no
\* record with an empty allAspectRatios is sent back or stored.
C16_NoRatioIsNotFound ==
  /\ \A p \in site :
       (\A k \in 1..Len(p.page) : p.page[k] \notin RatioFrags) => p.data = NotFound
  /\ \A r \in Requests :
       /\ (reqs[r].page # Null
             /\ \A k \in 1..Len(reqs[r].page) : reqs[r].page[k] \notin RatioFrags)
            => /\ responses[r] =
                    <<[ok |-> FALSE, error |-> "Aspect ratio not found on IMDb"]>>
               /\ reqs[r].record = Null
       /\ \A k \in 1..Len(responses[r]) :
            responses[r][k].ok => responses[r][k].data.allAspectRatios # <<>>
  /\ \A i \in ImdbIds : cache[i] # Null => cache[i].allAspectRatios # <<>>

\* A normal request whose page holds the label and a zero ratio: it is
\* answered ok: false and nothing is stored for its identifier.
C16_Witness ==
  \E r \in Requests :
    /\ ~reqs[r].incognito
    /\ reqs[r].page = <<"label", "z01">>
    /\ responses[r] = <<[ok |-> FALSE, error |-> "Aspect ratio not found on IMDb"]>>
    /\ cache[reqs[r].imdbId] = Null

\* What getCached gave the request r is a record younger than 30 days at the
\* request's now.
ReadFresh(r) ==
  /\ reqs[r].cached # Null
  /\ reqs[r].now - reqs[r].cached.fetchedAt < CACHE_TTL_MS

\* C19: a request of a normal tab is answered with the stored record, without
\* a fetch, exactly when a record is stored for its identifier and
\* now - fetchedAt < 30 days; otherwise it fetches, and when its fetch and
\* parse succeed its record takes the place of the stored one.
C19_CacheHitIffFresh ==
  /\ [](\A r \in Requests :
          (~reqs[r].incognito /\ reqs[r].at \notin {"idle", "reading"}) =>
            /\ ReadFresh(r) => ServedFromCache(r) /\ ~HasFetched(r)
            /\ ~ReadFresh(r) =>
                 /\ ~ServedFromCache(r)
                 /\ reqs[r].at = "delayed" \/ HasFetched(r)
                 /\ (reqs[r].at = "done" /\ reqs[r].record # Null) =>
                      responses[r] = <<[ok |-> TRUE, data |-> reqs[r].record]>>)
  /\ [][\A r \in Requests :
          (reqs[r].at = "writing" /\ reqs'[r].at = "written") =>
            cache'[reqs[r].imdbId] = reqs[r].record]_vars

\* A request answered from the store one tick before the record is 30 days
\* old, and a request for the same identifier that finds it 30 days old,
\* fetches, and has its record stored in its place.
C19_Witness ==
  \E r, s \in Requests :
    /\ ~reqs[r].incognito /\ ~reqs[s].incognito
    /\ reqs[r].imdbId = reqs[s].imdbId
    /\ ServedFromCache(r) /\ ~HasFetched(r)
    /\ reqs[r].now - reqs[r].cached.fetchedAt = CACHE_TTL_MS - 1
    /\ reqs[s].cached # Null
    /\ reqs[s].now - reqs[s].cached.fetchedAt = CACHE_TTL_MS
    /\ HasFetched(s)
    /\ reqs[s].at = "done"
    /\ reqs[s].record # Null
    /\ cache[reqs[s].imdbId] = reqs[s].record

\* C20: the step that answers a request from the store leaves the store as it
\* is, and the record stored for an identifier changes only by becoming, as
\* a whole, the record of a request whose fetch and parse are done.
C20_CacheChangesOnlyByReplacement ==
  [][/\ \A r \in Requests :
          (reqs[r].at = "reading" /\ reqs'[r].at = "done") => cache' = cache
     /\ \A i \in ImdbIds :
          cache'[i] # cache[i] =>
            \E r \in Requests :
              /\ reqs[r].at = "writing"
              /\ reqs[r].imdbId = i
              /\ HasFetched(r)
              /\ cache'[i] = reqs[r].record]_vars

\* A request was answered from the store after the clock has moved on, and
\* the store still holds the record it read, fetchedAt included.
C20_Witness ==
  \E r \in Requests :
    /\ ServedFromCache(r)
    /\ reqs[r].now > reqs[r].cached.fetchedAt
    /\ cache[reqs[r].imdbId] = reqs[r].cached

(***************************************************************************)
(* Failures, the rate limit and overlapping requests                       *)
(***************************************************************************)
\* The request r has been answered ok: false.
Failed(r) == responses[r] # <<>> /\ ~responses[r][1].ok

\* C21: a request that fails (response not ok, or no ratio found) leaves the
\* store as it was: the step that answers ok: false changes no stored
\* record, a request so answered never held a record to store, and every
\* change of the store is the write of a request that holds a whole record,
\* keeps it, and is not answered ok: false.
C21_FailureLeavesCache ==
  [][/\ \A r \in Requests :
          /\ (Failed(r)' /\ ~Failed(r)) => cache' = cache
          /\ Failed(r)' => reqs'[r].record = Null
          /\ reqs[r].record # Null => reqs'[r].record = reqs[r].record
     /\ \A i \in ImdbIds :
          cache'[i] # cache[i] =>
            \E r \in Requests :
              /\ reqs'[r].imdbId = i
              /\ reqs'[r].at = "written"
              /\ reqs'[r].record # Null
              /\ reqs'[r].record.allAspectRatios # <<>>
              /\ cache'[i] = reqs'[r].record
              /\ ~Failed(r)']_vars

\* A request for an identifier with a stored record that is too old has
\* fetched and failed at the page, and the stored record is the one of the
\* start.
C21_Witness ==
  \E r \in Requests :
    /\ Failed(r)
    /\ responses[r][1].error = NotFound.thrown
    /\ reqs[r].cached # Null
    /\ cache[reqs[r].imdbId] = reqs[r].cached
    /\ cache[reqs[r].imdbId].fetchedAt = MIN_REQUEST_INTERVAL_MS

\* C22: any two calls of fetch are at least MIN_REQUEST_INTERVAL_MS apart,
\* whatever the interleaving of the requests, and a request that comes too
\* early is delayed and not rejected: no request is answered ok: false
\* without its fetch.
C22_FetchesOneIntervalApart ==
  /\ \A m, n \in 1..Len(fetchLog) :
       m < n => fetchLog[n].at - fetchLog[m].at >= MIN_REQUEST_INTERVAL_MS
  /\ \A r \in Requests : Failed(r) => HasFetched(r)

\* A record without its fetchedAt.
WithoutFetchedAt(rec) == [f \in DOMAIN rec \ {"fetchedAt"} |-> rec[f]]

\* The requests r and s of normal tabs asked for the same identifier, found
\* no record stored, fetched, parsed the same document and are done.
BothFetchedSamePage(r, s) ==
  /\ r # s
  /\ ~reqs[r].incognito /\ ~reqs[s].incognito
  /\ reqs[r].imdbId = reqs[s].imdbId
  /\ reqs[r].at = "done" /\ reqs[s].at = "done"
  /\ reqs[r].cached = Null /\ reqs[s].cached = Null
  /\ HasFetched(r) /\ HasFetched(s)
  /\ reqs[r].page # Null /\ reqs[r].page = reqs[s].page
  /\ reqs[r].record # Null /\ reqs[s].record # Null

\* C23: when two requests for the same identifier without stored record both
\* fetch and parse the same document, their records are equal in every
\* field except fetchedAt, the store holds one of the two, and both are
\* answered ok: true with their record.
C23_OverlappingFetchesAgree ==
  \A r, s \in Requests :
    BothFetchedSamePage(r, s) =>
      /\ WithoutFetchedAt(reqs[r].record) = WithoutFetchedAt(reqs[s].record)
      /\ cache[reqs[r].imdbId] \in {reqs[r].record, reqs[s].record}
      /\ responses[r] = <<[ok |-> TRUE, data |-> reqs[r].record]>>
      /\ responses[s] = <<[ok |-> TRUE, data |-> reqs[s].record]>>

\* Two such requests that overlap, each arrived before the record of the
\* other was stamped, with records of different fetchedAt, the store holding
\* the one stamped last.
C23_Witness ==
  \E r, s \in Requests :
    /\ BothFetchedSamePage(r, s)
    /\ reqs[s].now <= reqs[r].record.fetchedAt
    /\ reqs[r].now <= reqs[s].record.fetchedAt
    /\ reqs[r].record.fetchedAt < reqs[s].record.fetchedAt
    /\ cache[reqs[r].imdbId] = reqs[s].record
    /\ cache[reqs[r].imdbId] # reqs[r].record

\* The calls of fetch the request r has made.
FetchesOf(r) == SelectSeq(fetchLog, LAMBDA f : f.req = r)

\* C25: when the response of IMDb is not ok, the request has made exactly
\* one call of fetch and makes no other, the requester gets ok: false with
\* an error that names the status of the response, and lastStatus is "error".
C25_NonSuccessFailsOnce ==
  /\ [][\A r \in Requests :
          (reqs[r].at = "fetching" /\ reqs'[r].at = "done") =>
            /\ responses'[r] = <<[ok |-> FALSE, error |-> "IMDb fetch failed: 404"]>>
            /\ STATUS'.lastStatus = "error"
            /\ STATUS'.lastError = "IMDb fetch failed: 404"
            /\ Len(FetchesOf(r)') = 1]_vars
  /\ [](\A r \in Requests :
          (Failed(r) /\ responses[r][1].error = "IMDb fetch failed: 404") =>
            /\ reqs[r].at = "done"
            /\ Len(responses[r]) = 1
            /\ Len(FetchesOf(r)) = 1)

\* A request got a response that is not ok and was answered ok: false;
\* STATUS names the error, and the other request has fetched since.
C25_Witness ==
  \E r \in Requests :
    /\ Failed(r)
    /\ responses[r][1].error = "IMDb fetch failed: 404"
    /\ STATUS.lastStatus = "error"
    /\ STATUS.lastError = "IMDb fetch failed: 404"
    /\ Len(FetchesOf(r)) = 1
    /\ Len(fetchLog) = 2
    /\ fetchLog[1].req = r

(***************************************************************************)
(* Incognito tabs, closed tabs and the counters                            *)
(***************************************************************************)
\* C24: a request of an incognito tab never reads or writes the store, and
\* nothing of it gets into chrome.storage.session: the saved tabData has no
\* entry of an incognito tab, and as long as incognito tabs alone have sent
\* requests the session storage is what it was at the start of the worker.
C24_IncognitoLeavesNoTrace ==
  /\ \A r \in Requests :
       reqs[r].incognito =>
         /\ reqs[r].at \notin {"reading", "writing", "written"}
         /\ reqs[r].cached = Null
  /\ \A t \in IncognitoTabs :
       "tabData" \in DOMAIN session =>
         NatToText(t) \notin DOMAIN session["tabData"]
  /\ (\A r \in Requests : reqs[r].at = "idle" \/ reqs[r].incognito) =>
       session \in {<<>>, SavedSession}

\* C26: once a tab is closed, neither TAB_DATA nor the saved tabData holds
\* an entry for it in any later state, also when a request of the tab was
\* in flight at the time of closing and completes afterwards.
C26_ClosedTabHasNoEntry ==
  \A t \in closed :
    /\ t \notin DOMAIN TAB_DATA
    /\ "tabData" \in DOMAIN session =>
         NatToText(t) \notin DOMAIN session["tabData"]

(***************************************************************************)
(* The content script                                                      *)
(***************************************************************************)
\* C27: without IMDb link the content script looks for it again at most 15
\* times and then stops: the timer is cleared and its path marked; when the
\* link appears, initWithAnchor runs exactly once and the timer is cleared
\* at that attempt; nothing is looked for after the timer is cleared.  Said
\* of every timer runOncePerPage has started.
C27_AtMostFifteenRetries ==
  \A k \in DOMAIN interval :
    /\ interval[k].lookups <= 15
    /\ interval[k].lookups = interval[k].attempts
    /\ interval[k].inits <= 1
    /\ interval[k].state = "cleared" =>
         IF interval[k].inits = 0
         THEN interval[k].marked
         ELSE interval[k].inits = 1 /\ ~interval[k].marked
    /\ interval[k].state = "running" =>
         interval[k].inits = 0 /\ ~interval[k].marked

(***************************************************************************)
(* Responses                                                               *)
(***************************************************************************)
\* The request r is answered, or waits for a time the clock of the model
\* does not reach.
AnsweredOrClockStopped(r) ==
  \/ reqs[r].at = "done"
  \/ reqs[r].at = "delayed" /\ ticks = MaxTicks /\ clock < reqs[r].wake

\* C28: every getAspectRatio message gets exactly one response, ok: true with
\* a record or ok: false with an error, when the storage read, the delay,
\* the fetch and the storage write settle: a handler that has not ended has
\* sent none, a handler that has ended has sent one, and every handler ends.
C28_ExactlyOneResponse ==
  /\ [](\A r \in Requests :
          /\ reqs[r].at # "done" => responses[r] = <<>>
          /\ reqs[r].at = "done" =>
               /\ Len(responses[r]) = 1
               /\ IF responses[r][1].ok
                  THEN /\ DOMAIN responses[r][1] = {"ok", "data"}
                       /\ responses[r][1].data \in {reqs[r].record, reqs[r].cached}
                       /\ responses[r][1].data # Null
                  ELSE /\ DOMAIN responses[r][1] = {"ok", "error"}
                       /\ responses[r][1].error
                            \in {"IMDb fetch failed: 404", NotFound.thrown})
  /\ \A r \in Requests : (reqs[r].at # "idle") ~> AnsweredOrClockStopped(r)

\* Both requests are answered, one ok: true after a delay and one ok: false.
C28_Witness ==
  \E r, s \in Requests :
    /\ reqs[r].at = "done" /\ reqs[s].at = "done"
    /\ responses[r][1].ok /\ reqs[r].wake > 0
    /\ ~responses[s][1].ok

(***************************************************************************)
(* The counters and the time of the stored record                          *)
(***************************************************************************)
\* C29: in every reachable state of the worker,
\* cacheHits + imdbRequests <= totalFetches.
C29_CountersBounded ==
  STATUS.cacheHits + STATUS.imdbRequests <= STATUS.totalFetches

\* C30: with a clock that does not go back, the fetchedAt of the record
\* stored for an identifier never decreases: a write never carries a time
\* older than that of the record it replaces.
C30_FetchedAtNeverDecreases ==
  [][\A i \in ImdbIds :
       (cache[i] # Null /\ cache'[i] # cache[i]) =>
         /\ cache'[i] # Null
         /\ cache'[i].fetchedAt >= cache[i].fetchedAt
         /\ cache'[i].fetchedAt <= clock]_vars

\* Two overlapping requests have written for the same identifier, and the
\* second write replaced the record of the first by a record stamped later.
C30_Witness ==
  \E r, s \in Requests :
    /\ r # s
    /\ reqs[r].imdbId = reqs[s].imdbId
    /\ reqs[r].order = 1 /\ reqs[s].order = 2
    /\ reqs[r].at = "done" /\ reqs[s].at = "done"
    /\ reqs[s].now <= reqs[r].record.fetchedAt
    /\ reqs[r].record.fetchedAt < reqs[s].record.fetchedAt
    /\ cache[reqs[s].imdbId] = reqs[s].record

====
